---- MODULE Spec2Model ----
(***************************************************************************)
(* Model of zfs-to-glacier.  The streaming multipart upload engine         *)
(* (src/src/s3_utils.rs): upload_stdout, upload_stdout_internal,           *)
(* upload_stdout_send_parts and the retry! macro, together with the        *)
(* object store the engine talks to.  The sync subcommand                  *)
(* (src/src/main.rs): the backup planner (src/src/compute_backups.rs) on   *)
(* the inventory of src/src/zfs_utils.rs, the remote catalog               *)
(* (get_all_files) and the loop over the pending actions.                  *)
(***************************************************************************)
EXTENDS Integers, Sequences, FiniteSets, TLC

(***************************************************************************)
(* Bounds of the model.                                                    *)
(***************************************************************************)
\* number of sender tasks, num_cpus::get() on the machine
NumSenders == 2
\* longest child stdout stream, in bytes
MaxStreamLen == 3
\* largest buf_size handed to upload_stdout_internal
MaxBufSize == 2
\* number of store operations of one run on which the store fails at all
MaxFaultyOps == 1

(***************************************************************************)
(* Program constants.                                                      *)
(***************************************************************************)
\* retry!: `if attempt < 20`
MaxAttempts == 20
\* async_channel::bounded(2)
BufferChannelCap == 2
\* const MAX_S3_PART_COUNT: usize = 10000
MAX_S3_PART_COUNT == 10000
\* `let mut buf_size = 8 * 1024 * 1024`, counted in MiB
InitialBufSize == 8

NoValue == "none"

Senders == 1..NumSenders

VARIABLES
    stream,            \* the bytes the child writes to its stdout
    buf_size,          \* UploadContext.buf_size
    exit_status,       \* what child.wait() returns (0 is success)
    pc,                \* position of the task running upload_stdout_internal
    attempt,           \* `attempt` of the retry! loop the main task is in
    upload_id,         \* UploadContext.upload_id
    part_count,        \* reader loop: part_count
    pos,               \* bytes of stream consumed by the reader so far
    buffer,            \* reader loop: the buffer just read
    tx_buffer,         \* the bounded buffer channel's queue
    buffer_open,       \* tx_buffer has not been dropped
    rx_completedpart,  \* the unbounded completion channel's queue
    rx_open,           \* rx_completedpart has not been dropped
    completed_parts,   \* Vec<CompletedPart> of the collector
    senders,           \* the sender tasks
    data_sent,         \* UploadContext.data_sent
    store,             \* the object store's view of the multipart upload
    original_err,      \* the error upload_stdout_send_parts returned
    result,            \* what upload_stdout_internal returned
    calls,             \* history: calls made by the main task's retry! loop
    faulty_ops,        \* history: operations the store failed on at least once
    exhausted,         \* history: operations that failed MaxAttempts times
    fail_returns,      \* history: failed calls behind each failure retry! returned
    retried,           \* history: most failures an operation recovered from
    upload_calls,      \* history: UploadPart requests answered by the store
    upload_failed,     \* history: UploadPart requests that failed
    accepted_bytes,    \* history: bytes of the UploadPart requests accepted
    requests,          \* history: the distinct UploadPart requests sent
    nonempty_reads,    \* history: non-empty buffers produced by the reader
    submitted,         \* history: part numbers sent into the buffer channel
    received,          \* history: part number -> times a sender received it
    issued,            \* history: store operations requested so far
    collected,         \* history: the results the collector pushed, in order
    callback,          \* the callback the caller supplied
    pb_position,       \* app: pb, the position of the progress bar
    callbacks,         \* history: times the callback was invoked
    wait_result,       \* history: what each call of child.wait() returned
    submitted_sizes,   \* history: sizes of the parts the reader submitted
    estimated_size,    \* upload_stdout: the estimated_size hint, in MiB
    size_pc,           \* position in upload_stdout and the sized upload
    stream_size,       \* sized upload: length of the child's stream, in MiB
    bytes_read,        \* sized upload: size of the buffer just read, in MiB
    queued_parts,      \* sized upload: part numbers in the buffer channel
    highest_part,      \* sized upload: highest part number sent to the store
    local_zfs_state,   \* LocalZfsState.pools: pool -> its snapshots
    now,               \* the clock Local::now() reads
    s3_backup_actions, \* app: what get_pending_actions returned
    bucket,            \* the objects of the bucket, in the store's listing order
    max_keys,          \* the most entries the store puts on one listing page
    scan,              \* get_all_files: scan
    continuation_token,\* get_all_files: continuation_token
    list_result,       \* get_all_files: result
    request,           \* get_all_files: request, the last listing response
    remote_files,      \* app: what get_all_files returned
    actions,           \* app: the filtered actions of the sync loop
    actions_performed, \* app: 1-based position of the sync loop
    dryrun,            \* app: the -n flag
    app_pc,            \* position of the task running app
    attempted,         \* history: positions of the actions the loop started
    appended,          \* history: the snapshot taken since the run before
    uploaded,          \* history: the keys the sync loop uploaded
    runs,              \* history: sync runs started so far
    configs,           \* config.configs, the policy entries of config.yaml
    config_pos         \* app: 1-based position of the loop over the entries

vars == <<stream, buf_size, exit_status, pc, attempt, upload_id, part_count,
          pos, buffer, tx_buffer, buffer_open, rx_completedpart, rx_open,
          completed_parts, senders, data_sent, store, original_err, result,
          calls, faulty_ops, exhausted, fail_returns, retried, upload_calls,
          upload_failed, accepted_bytes, requests, nonempty_reads, submitted,
          received,
          issued, collected, callback, pb_position, callbacks, wait_result,
          submitted_sizes,
          estimated_size, size_pc, stream_size, bytes_read,
          queued_parts, highest_part, local_zfs_state, now,
          s3_backup_actions, bucket, max_keys, scan, continuation_token,
          list_result, request, remote_files, actions, actions_performed,
          dryrun, app_pc, attempted, appended, uploaded,
              runs, configs, config_pos>>

\* the child process, which no step changes
child == <<stream, exit_status>>

\* the variables of upload_stdout's part-size selection and of the sized
\* upload, which no step of upload_stdout_internal changes
sizing == <<estimated_size, size_pc, stream_size, bytes_read, queued_parts,
            highest_part>>

\* the variables of the sync subcommand (planner, remote catalog, sync
\* loop), which no step of the upload engine changes
app_vars == <<local_zfs_state, now, s3_backup_actions, bucket, max_keys, scan,
              continuation_token, list_result, request, remote_files, actions,
              actions_performed, dryrun, app_pc, attempted, appended, uploaded,
              runs, configs, config_pos>>

\* the history variables no step of the reader or the collector changes
retry_history == <<calls, faulty_ops, exhausted, fail_returns, retried>>
upload_history == <<upload_calls, upload_failed, accepted_bytes, requests>>
progress_history == <<collected, callback, pb_position, callbacks,
                      wait_result, submitted_sizes>>

(***************************************************************************)
(* Pure helpers.                                                           *)
(***************************************************************************)
Min(a, b) == IF a < b THEN a ELSE b

Max(a, b) == IF a > b THEN a ELSE b

\* the deterministic pattern of the i-th byte of a generated stream
PatternByte(i) == i

StreamOf(len) == [i \in 1..len |-> PatternByte(i)]

RECURSIVE SumBytes(_)
SumBytes(b) == IF b = <<>> THEN 0 ELSE Head(b) + SumBytes(Tail(b))

\* md5::Md5::digest(&buffer), base64 encoded: a checksum that can collide
Md5(b) == (SumBytes(b) + 7 * Len(b)) % 251

\* RetryStep with `attempt < 19`: the loop gives up one attempt short
RetryStepGivesUpEarly(att, ok) ==
    IF ok THEN [break |-> TRUE, ok |-> TRUE, attempt |-> att]
    ELSE IF att < MaxAttempts - 1
         THEN [break |-> FALSE, ok |-> FALSE, attempt |-> att + 1]
         ELSE [break |-> TRUE, ok |-> FALSE, attempt |-> att]

\* RetryStep with `attempt <= 20`: the loop makes one attempt too many
RetryStepOneMore(att, ok) ==
    IF ok THEN [break |-> TRUE, ok |-> TRUE, attempt |-> att]
    ELSE IF att <= MaxAttempts
         THEN [break |-> FALSE, ok |-> FALSE, attempt |-> att + 1]
         ELSE [break |-> TRUE, ok |-> FALSE, attempt |-> att]

\* one turn of the retry! loop, given whether the wrapped call was Ok:
\* break with the result, or count the attempt and go round again
RetryStep(att, ok) ==
    IF ok THEN [break |-> TRUE, ok |-> TRUE, attempt |-> att]
    ELSE IF att < MaxAttempts
         THEN [break |-> FALSE, ok |-> FALSE, attempt |-> att + 1]
         ELSE [break |-> TRUE, ok |-> FALSE, attempt |-> att]

\* ReadPart with a reader that starts over at the head of the stream
ReadPartFromStart(s, p, size) ==
    SubSeq(s, 1, Min(size, Len(s) - p))

\* ReadPart with a single read call, which may return one byte only
ReadPartShortRead(s, p, size) == SubSeq(s, p + 1, Min(p + 1, Len(s)))

\* stdout.take(capacity).read_to_end(&mut b): up to buf_size bytes from pos
ReadPart(s, p, size) == SubSeq(s, p + 1, Min(p + size, Len(s)))

\* the uploader closure adds the part's size to data_sent after the
\* request returned, before it looks at the request's result
DataSentAfter(sent, buffer_size, ok) == sent + buffer_size

\* completed_parts.sort_by(part_number)
RECURSIVE InsertPart(_, _)
InsertPart(sorted, cp) ==
    IF sorted = <<>> THEN <<cp>>
    ELSE IF cp.part_number < Head(sorted).part_number
         THEN <<cp>> \o sorted
         ELSE <<Head(sorted)>> \o InsertPart(Tail(sorted), cp)

\* SortParts with the sort left out: the parts in the order they were pushed
SortPartsAsPushed(cps) == cps

RECURSIVE SortParts(_)
SortParts(cps) ==
    IF cps = <<>> THEN <<>>
    ELSE InsertPart(SortParts(SubSeq(cps, 1, Len(cps) - 1)), cps[Len(cps)])

(***************************************************************************)
(* The object store, as the engine's requests see it.                      *)
(***************************************************************************)
\* UploadPart is accepted for an open upload whose Content-MD5 matches
UploadPartAccepted(st, body, content_md5) ==
    st.state = "open" /\ content_md5 = Md5(body)

\* the store keeps the part under its number and answers with its etag
StorePart(st, part_number, body) ==
    [st EXCEPT !.parts =
        [p \in DOMAIN st.parts \cup {part_number} |->
            IF p = part_number THEN [body |-> body, e_tag |-> Md5(body)]
            ELSE st.parts[p]]]

\* CompleteMultipartUpload wants the listed parts in ascending order, each
\* one uploaded and named by the etag the store gave it
CompleteAccepted(st, cps) ==
    /\ st.state = "open"
    /\ \A i \in 1..Len(cps) :
        /\ cps[i].part_number \in DOMAIN st.parts
        /\ cps[i].e_tag = st.parts[cps[i].part_number].e_tag
        /\ i > 1 => cps[i - 1].part_number < cps[i].part_number

RECURSIVE Assemble(_, _)
Assemble(st, cps) ==
    IF cps = <<>> THEN <<>>
    ELSE st.parts[Head(cps).part_number].body \o Assemble(st, Tail(cps))

(***************************************************************************)
(* Initial state: upload_stdout_internal is called with a child, a         *)
(* buf_size and a store that knows nothing of the upload.                  *)
(***************************************************************************)
NoPart == [ok |-> FALSE, err |-> NoValue]

IdleSender ==
    [pc |-> "idle", part_count |-> 0, buffer |-> <<>>, content_md5 |-> 0,
     attempt |-> 1, calls |-> 0, completed_part |-> NoPart]

Running == [status |-> "none"]

\* nothing of the upload has happened yet
EngineStart ==
    /\ attempt = 1
    /\ upload_id = NoValue
    /\ part_count = 0
    /\ pos = 0
    /\ buffer = <<>>
    /\ tx_buffer = <<>>
    /\ buffer_open = TRUE
    /\ rx_completedpart = <<>>
    /\ rx_open = TRUE
    /\ completed_parts = <<>>
    /\ senders = [s \in Senders |-> IdleSender]
    /\ data_sent = 0
    /\ store = [state |-> "none", parts |-> <<>>, object |-> <<>>]
    /\ original_err = NoValue
    /\ result = Running
    /\ calls = 0
    /\ faulty_ops = 0
    /\ exhausted = {}
    /\ fail_returns = {}
    /\ retried = 0
    /\ upload_calls = 0
    /\ upload_failed = 0
    /\ accepted_bytes = 0
    /\ requests = {}
    /\ nonempty_reads = 0
    /\ submitted = <<>>
    /\ received = <<>>
    /\ issued = {}
    /\ collected = <<>>
    /\ pb_position = 0
    /\ callbacks = 0
    /\ wait_result = <<>>
    /\ submitted_sizes = <<>>

\* no listing response has been received
NoResponse ==
    [contents |-> <<>>, is_truncated |-> FALSE, continuation_token |-> <<>>,
     next_continuation_token |-> <<>>]

\* the sync subcommand is not running: only upload_stdout is exercised
AppNotCalled ==
    /\ local_zfs_state = <<>>
    /\ now = 0
    /\ s3_backup_actions = <<>>
    /\ bucket = <<>>
    /\ max_keys = 1
    /\ scan = TRUE
    /\ continuation_token = <<>>
    /\ list_result = {}
    /\ request = NoResponse
    /\ remote_files = {}
    /\ actions = <<>>
    /\ actions_performed = 1
    /\ dryrun = FALSE
    /\ app_pc = "idle"
    /\ attempted = {}
    /\ appended = <<>>
    /\ uploaded = {}
    /\ runs = 0
    /\ configs = <<>>
    /\ config_pos = 1

Init ==
    /\ AppNotCalled
    /\ stream \in {StreamOf(len) : len \in 0..MaxStreamLen}
    /\ buf_size \in 1..MaxBufSize
    /\ exit_status \in {0, 1}
    /\ pc = "create"
    /\ callback = "ignore"
    /\ EngineStart
    /\ estimated_size = 0
    /\ size_pc = "internal"
    /\ stream_size = 0
    /\ bytes_read = 0
    /\ queued_parts = <<>>
    /\ highest_part = 0

\* the store may fail a request of an operation it already failed, or of a
\* new one while fewer than MaxFaultyOps operations were hit
MayFail(n) == n > 0 \/ faulty_ops < MaxFaultyOps

FaultyAfter(n, fault) == IF fault /\ n = 0 THEN faulty_ops + 1 ELSE faulty_ops

\* the histories after the (n+1)-th call of a retry! loop on operation op
\* was answered, retry! deciding r; fault: the call failed by a fault
HistoryAfter(op, n, ok, r, fault) ==
    /\ faulty_ops' = FaultyAfter(n, fault)
    /\ exhausted' = IF ~ok /\ n + 1 >= MaxAttempts
                    THEN exhausted \cup {op} ELSE exhausted
    /\ fail_returns' = IF r.break /\ ~r.ok
                       THEN fail_returns \cup {n + 1} ELSE fail_returns
    /\ retried' = IF ok THEN Max(retried, n) ELSE retried
    /\ issued' = issued \cup {op}

(***************************************************************************)
(* upload_stdout_internal: CreateMultipartUpload under retry!, then the    *)
(* sender tasks are spawned by upload_stdout_send_parts.                   *)
(***************************************************************************)
\* AfterCreate with the abort protocol run also for a failed Create
AfterCreateAbort(ok) == IF ok THEN "read" ELSE "abort"

\* `upload_id?`: with an upload-id the engine goes on to
\* upload_stdout_send_parts, without one it returns
AfterCreate(ok) == IF ok THEN "read" ELSE "done"

CreateAttempt(ok, fault) ==
    /\ pc = "create"
    /\ store' = IF ok THEN [store EXCEPT !.state = "open"] ELSE store
    /\ LET r == RetryStep(attempt, ok) IN
        /\ HistoryAfter("create", calls, ok, r, fault)
        /\ IF ~r.break
           THEN /\ attempt' = r.attempt
                /\ calls' = calls + 1
                /\ UNCHANGED <<pc, upload_id, senders, result>>
           ELSE /\ attempt' = 1
                /\ calls' = 0
                /\ IF r.ok
                   THEN /\ upload_id' = "upload-1"
                        /\ senders' = [s \in Senders |->
                                          [IdleSender EXCEPT !.pc = "recv"]]
                        /\ pc' = AfterCreate(TRUE)
                        /\ UNCHANGED result
                   ELSE \* `upload_id?`
                        /\ result' = [status |-> "err", err |-> "create"]
                        /\ pc' = AfterCreate(FALSE)
                        /\ UNCHANGED <<upload_id, senders>>
    /\ UNCHANGED <<app_vars, child, buf_size, sizing, progress_history,
                   part_count, pos, buffer,
                   tx_buffer, buffer_open, rx_completedpart, rx_open,
                   completed_parts, data_sent, original_err, upload_history,
                   nonempty_reads, submitted, received>>

CreateOk == CreateAttempt(TRUE, FALSE)

CreateFail == MayFail(calls) /\ CreateAttempt(FALSE, TRUE)

(***************************************************************************)
(* upload_stdout_send_parts: the reader loop of the main task.             *)
(***************************************************************************)
\* NextPartCount with the part counted twice a turn
NextPartCountTwice(n) == n + 2

\* part_count = part_count + 1
NextPartCount(n) == n + 1

\* ShouldSubmit with the loop left on the first full buffer
ShouldSubmitUnlessFull(n) == n > 0 /\ n < buf_size

\* ShouldSubmit with `bytes_read >= buf_size`: a short buffer ends the loop
ShouldSubmitFullOnly(n) == n >= buf_size

\* `if bytes_read > 0`: the buffer is submitted, else the loop ends
ShouldSubmit(n) == n > 0

\* ExitSuccess with the test turned round
ExitSuccessNonZero(status) == status # 0

\* ExitSuccess with the exit status not looked at
ExitSuccessAlways(status) == TRUE

\* exit_status.success()
ExitSuccess(status) == status = 0

\* the top of the loop: the part is counted, then up to buf_size bytes read
ReaderRead ==
    /\ pc = "read"
    /\ LET b == ReadPart(stream, pos, buf_size) IN
        /\ buffer' = b
        /\ pos' = pos + Len(b)
        /\ nonempty_reads' = IF Len(b) > 0 THEN nonempty_reads + 1
                             ELSE nonempty_reads
    /\ part_count' = NextPartCount(part_count)
    /\ pc' = "drain"
    /\ UNCHANGED <<app_vars, child, buf_size, sizing, progress_history,
                   attempt, upload_id,
                   tx_buffer, buffer_open, rx_completedpart, rx_open,
                   completed_parts, senders, data_sent, store, original_err,
                   result, retry_history, upload_history, submitted,
                   received, issued>>

\* read_to_end returns an I/O error and `.unwrap()` panics: the task
\* unwinds out of upload_stdout_internal, dropping the locals of
\* upload_stdout_send_parts on its way, and nothing is returned
ReaderReadError ==
    /\ pc = "read"
    /\ part_count' = NextPartCount(part_count)
    /\ buffer_open' = FALSE
    /\ rx_open' = FALSE
    /\ rx_completedpart' = <<>>
    /\ completed_parts' = <<>>
    /\ pc' = "panicked"
    /\ UNCHANGED <<app_vars, child, buf_size, sizing, progress_history,
                   attempt, upload_id, pos, buffer, tx_buffer, senders,
                   data_sent, store, original_err, result, retry_history,
                   upload_history, nonempty_reads, submitted, received,
                   issued>>

\* upload_stdout_send_parts returns Err(err): its locals are dropped, the
\* channel ends among them; the sender tasks are left running
ReturnErr(err) ==
    /\ original_err' = err
    /\ buffer_open' = FALSE
    /\ rx_open' = FALSE
    /\ rx_completedpart' = <<>>
    /\ completed_parts' = <<>>
    /\ buffer' = <<>>
    /\ attempt' = 1
    /\ pc' = "abort"

\* history: the part was pushed by the opportunistic or by the final drain
Pushed(part, drain) == [part_number |-> part.part_number, drain |-> drain]

\* while let Ok(result) = rx_completedpart.try_recv(): one result taken,
\* pushed if it is a part, returned if it is an error
ReaderDrainOne ==
    /\ pc = "drain"
    /\ rx_completedpart # <<>>
    /\ LET res == Head(rx_completedpart) IN
        IF res.ok
        THEN /\ completed_parts' = Append(completed_parts, res.part)
             /\ collected' = Append(collected, Pushed(res.part, "early"))
             /\ rx_completedpart' = Tail(rx_completedpart)
             /\ UNCHANGED <<original_err, buffer_open, rx_open, buffer,
                            attempt, pc>>
        ELSE ReturnErr(res.err) /\ UNCHANGED collected
    /\ UNCHANGED <<app_vars, child, buf_size, sizing, callback, pb_position,
                   callbacks, wait_result,
                   submitted_sizes, upload_id, part_count, pos,
                   tx_buffer, senders, data_sent, store, result,
                   retry_history, upload_history, nonempty_reads, submitted,
                   received, issued>>

\* try_recv finds the completion channel empty: on to `if bytes_read > 0`;
\* at end of file the loop breaks and tx_buffer is dropped
ReaderDrainEnd ==
    /\ pc = "drain"
    /\ rx_completedpart = <<>>
    /\ IF ShouldSubmit(Len(buffer))
       THEN pc' = "send" /\ UNCHANGED buffer_open
       ELSE pc' = "join" /\ buffer_open' = FALSE
    /\ UNCHANGED <<app_vars, child, buf_size, sizing, progress_history,
                   attempt, upload_id,
                   part_count, pos, buffer, tx_buffer, rx_completedpart,
                   rx_open, completed_parts, senders, data_sent, store,
                   original_err, result, retry_history, upload_history,
                   nonempty_reads, submitted, received, issued>>

\* ChannelFull with a channel of one more slot
ChannelFullAtThree(queue) == Len(queue) >= BufferChannelCap + 1

\* async_channel::bounded(2): the channel takes no message while it holds 2
ChannelFull(queue) == Len(queue) >= BufferChannelCap

\* tx_buffer.send((part_count, buffer)).await: waits while the channel is full
ReaderSend ==
    /\ pc = "send"
    /\ ~ChannelFull(tx_buffer)
    /\ tx_buffer' = Append(tx_buffer, [part_count |-> part_count,
                                       buffer |-> buffer])
    /\ submitted' = Append(submitted, part_count)
    /\ submitted_sizes' = Append(submitted_sizes, Len(buffer))
    /\ buffer' = <<>>
    /\ pc' = "callback"
    /\ UNCHANGED <<app_vars, child, buf_size, sizing, collected, callback,
                   pb_position, callbacks,
                   wait_result, attempt, upload_id,
                   part_count, pos, buffer_open, rx_completedpart, rx_open,
                   completed_parts, senders, data_sent, store, original_err,
                   result, retry_history, upload_history, nonempty_reads,
                   received, issued>>

\* GetBytesSent with the counter cut down to its lowest bit
GetBytesSentWrapped(sent) == sent % 2

\* UploadContext::get_bytes_sent: data_sent is loaded
GetBytesSent(sent) == sent

\* (callback)(upload_context.get_bytes_sent()): `|_| {}` of the tests drops
\* the value, the callback of app sets the progress bar to it
ReaderCallback ==
    /\ pc = "callback"
    /\ callbacks' = callbacks + 1
    /\ pb_position' = IF callback = "progress" THEN GetBytesSent(data_sent)
                      ELSE pb_position
    /\ pc' = "read"
    /\ UNCHANGED <<app_vars, child, buf_size, sizing, collected, callback,
                   wait_result,
                   submitted_sizes, attempt, upload_id,
                   part_count, pos, buffer, tx_buffer, buffer_open,
                   rx_completedpart, rx_open, completed_parts, senders,
                   data_sent, store, original_err, result, retry_history,
                   upload_history, nonempty_reads, submitted, received,
                   issued>>

\* future::join_all(senders) is ready: every sender task has returned
AllJoined(tasks) == \A s \in Senders : tasks[s].pc = "done"

\* future::join_all(senders).await
JoinSenders ==
    /\ pc = "join"
    /\ AllJoined(senders)
    /\ pc' = "wait"
    /\ UNCHANGED <<app_vars, child, buf_size, sizing, progress_history,
                   attempt, upload_id,
                   part_count, pos, buffer, tx_buffer, buffer_open,
                   rx_completedpart, rx_open, completed_parts, senders,
                   data_sent, store, original_err, result, retry_history,
                   upload_history, nonempty_reads, submitted, received,
                   issued>>

\* child.wait(): a failure status is returned as an error
ChildWait ==
    /\ pc = "wait"
    /\ wait_result' = Append(wait_result, exit_status)
    /\ IF ~ExitSuccess(exit_status)
       THEN ReturnErr("exit")
       ELSE /\ pc' = "final"
            /\ UNCHANGED <<original_err, buffer_open, rx_open,
                           rx_completedpart, completed_parts, buffer,
                           attempt>>
    /\ UNCHANGED <<app_vars, child, buf_size, sizing, collected, callback,
                   pb_position, callbacks,
                   submitted_sizes, upload_id, part_count, pos,
                   tx_buffer, senders, data_sent, store, result,
                   retry_history, upload_history, nonempty_reads, submitted,
                   received, issued>>

\* the results before the first Err of the completion channel's queue
RECURSIVE OkPrefix(_)
OkPrefix(q) ==
    IF q = <<>> \/ ~Head(q).ok THEN <<>>
    ELSE <<Head(q).part>> \o OkPrefix(Tail(q))

\* AfterFinalDrain with an empty list of parts taken for an error
AfterFinalDrainNoParts(parts) ==
    IF parts = <<>> THEN "abort" ELSE "complete"

\* `Ok(completed_parts)`: the sorted list is handed to Complete, empty or
\* not
AfterFinalDrain(parts) == "complete"

\* the completion channel with the task's own Sender never dropped
CompletionClosedKeepingOwn(tasks) == FALSE

\* the completion channel is closed, so that recv() on the empty queue
\* fails: the task's own Sender went by `drop(tx_completedpart)`, and the
\* clone each sender task holds goes when the task returns
CompletionClosed(tasks) == \A s \in Senders : tasks[s].pc = "done"

\* while let Ok(result) = rx_completedpart.recv().await, with every sender
\* gone: the queue is taken to its end or to its first Err; then the sort
FinalDrain ==
    /\ pc = "final"
    /\ CompletionClosed(senders)
    /\ LET oks == OkPrefix(rx_completedpart) IN
        /\ collected' =
              collected \o [i \in 1..Len(oks) |-> Pushed(oks[i], "final")]
        /\ IF Len(oks) = Len(rx_completedpart)
           THEN /\ completed_parts' = SortParts(completed_parts \o oks)
                /\ rx_completedpart' = <<>>
                /\ rx_open' = FALSE
                /\ attempt' = 1
                /\ pc' = AfterFinalDrain(completed_parts')
                /\ UNCHANGED <<original_err, buffer_open, buffer>>
           ELSE ReturnErr(rx_completedpart[Len(oks) + 1].err)
    /\ UNCHANGED <<app_vars, child, buf_size, sizing, callback, pb_position,
                   callbacks, wait_result,
                   submitted_sizes, upload_id, part_count, pos,
                   tx_buffer, senders, data_sent, store, result,
                   retry_history, upload_history, nonempty_reads, submitted,
                   received, issued>>

(***************************************************************************)
(* upload_stdout_send_parts: the sender tasks.                             *)
(***************************************************************************)
\* rx_channel.recv().await yields a part; its digest is computed once
SenderRecv(s) ==
    /\ senders[s].pc = "recv"
    /\ tx_buffer # <<>>
    /\ LET m == Head(tx_buffer) IN
        /\ senders' = [senders EXCEPT ![s] =
              [pc |-> "upload", part_count |-> m.part_count,
               buffer |-> m.buffer, content_md5 |-> Md5(m.buffer),
               attempt |-> 1, calls |-> 0, completed_part |-> NoPart]]
        /\ received' = [p \in DOMAIN received \cup {m.part_count} |->
              (IF p \in DOMAIN received THEN received[p] ELSE 0)
              + (IF p = m.part_count THEN 1 ELSE 0)]
    /\ tx_buffer' = Tail(tx_buffer)
    /\ UNCHANGED <<app_vars, child, buf_size, sizing, progress_history,
                   pc, attempt, upload_id,
                   part_count, pos, buffer, buffer_open, rx_completedpart,
                   rx_open, completed_parts, data_sent, store, original_err,
                   result, retry_history, upload_history, nonempty_reads,
                   submitted, issued>>

\* rx_channel.recv().await fails: the channel is closed and empty
SenderRecvClosed(s) ==
    /\ senders[s].pc = "recv"
    /\ tx_buffer = <<>>
    /\ ~buffer_open
    /\ senders' = [senders EXCEPT ![s] = [IdleSender EXCEPT !.pc = "done"]]
    /\ UNCHANGED <<app_vars, child, buf_size, sizing, progress_history,
                   pc, attempt, upload_id,
                   part_count, pos, buffer, tx_buffer, buffer_open,
                   rx_completedpart, rx_open, completed_parts, data_sent,
                   store, original_err, result, retry_history,
                   upload_history, nonempty_reads, submitted, received,
                   issued>>

\* PartResult with a completed part made up also for a failed request
PartResultAlwaysOk(snd, ok) ==
    [ok |-> TRUE,
     part |-> [e_tag |-> Md5(snd.buffer), part_number |-> snd.part_count]]

\* what the uploader closure returns: the CompletedPart with the store's
\* etag, or the request's error as a string
PartResult(snd, ok) ==
    IF ok
    THEN [ok |-> TRUE,
          part |-> [e_tag |-> Md5(snd.buffer), part_number |-> snd.part_count]]
    ELSE [ok |-> FALSE, err |-> "uploadpart"]

\* UploadPartRequestOf with the payload gone after the first attempt
UploadPartRequestMoved(snd) ==
    [part_number |-> snd.part_count,
     body |-> IF snd.calls = 0 THEN snd.buffer ELSE <<>>,
     content_length |-> Len(snd.buffer),
     content_md5 |-> snd.content_md5]

\* UploadPartRequest { body: buffer, content_length: buffer_size,
\* content_md5, part_number: part_count }, from the clones retry! hands
\* the closure on each attempt
UploadPartRequestOf(snd) ==
    [part_number |-> snd.part_count,
     body |-> snd.buffer,
     content_length |-> Len(snd.buffer),
     content_md5 |-> snd.content_md5]

\* one UploadPart request of sender s and the turn of retry! around it
UploadPartAttempt(s, ok, fault) ==
    /\ senders[s].pc = "upload"
    /\ LET snd == senders[s]
           req == UploadPartRequestOf(snd)
           r == RetryStep(snd.attempt, ok)
       IN
        /\ requests' = requests \cup {req}
        /\ store' = IF ok THEN StorePart(store, req.part_number, req.body)
                    ELSE store
        /\ data_sent' = DataSentAfter(data_sent, Len(snd.buffer), ok)
        /\ accepted_bytes' = IF ok THEN accepted_bytes + Len(snd.buffer)
                             ELSE accepted_bytes
        /\ upload_failed' = IF ok THEN upload_failed ELSE upload_failed + 1
        /\ upload_calls' = upload_calls + 1
        /\ HistoryAfter("uploadpart", snd.calls, ok, r, fault)
        /\ senders' = [senders EXCEPT ![s] =
              IF r.break
              THEN [snd EXCEPT !.pc = "send", !.attempt = 1, !.calls = 0,
                               !.completed_part = PartResult(snd, r.ok)]
              ELSE [snd EXCEPT !.attempt = r.attempt,
                               !.calls = snd.calls + 1]]
    /\ UNCHANGED <<app_vars, child, buf_size, sizing, progress_history,
                   pc, attempt, upload_id,
                   part_count, pos, buffer, tx_buffer, buffer_open,
                   rx_completedpart, rx_open, completed_parts, original_err,
                   result, calls, submitted, received, nonempty_reads>>

\* the store accepts the request
UploadPartOk(s) ==
    /\ senders[s].pc = "upload"
    /\ UploadPartAccepted(store, UploadPartRequestOf(senders[s]).body,
                          UploadPartRequestOf(senders[s]).content_md5)
    /\ UploadPartAttempt(s, TRUE, FALSE)

\* the request fails: by a fault of the store or the network, or because
\* the store has to refuse it
UploadPartFail(s) ==
    /\ senders[s].pc = "upload"
    /\ \E fault \in BOOLEAN :
        /\ IF fault THEN MayFail(senders[s].calls)
           ELSE ~UploadPartAccepted(store,
                                    UploadPartRequestOf(senders[s]).body,
                                    UploadPartRequestOf(senders[s]).content_md5)
        /\ UploadPartAttempt(s, FALSE, fault)

\* tx_completedpart_channel.send(completed_part).await; the send fails, and
\* the task returns, once the receiver is gone
SenderSend(s) ==
    /\ senders[s].pc = "send"
    /\ IF rx_open
       THEN /\ rx_completedpart' =
                  Append(rx_completedpart, senders[s].completed_part)
            /\ senders' = [senders EXCEPT ![s] =
                  [IdleSender EXCEPT !.pc = "recv"]]
       ELSE /\ senders' = [senders EXCEPT ![s] =
                  [IdleSender EXCEPT !.pc = "done"]]
            /\ UNCHANGED rx_completedpart
    /\ UNCHANGED <<app_vars, child, buf_size, sizing, progress_history,
                   pc, attempt, upload_id,
                   part_count, pos, buffer, tx_buffer, buffer_open, rx_open,
                   completed_parts, data_sent, store, original_err, result,
                   retry_history, upload_history, nonempty_reads, submitted,
                   received, issued>>

(***************************************************************************)
(* upload_stdout_internal: CompleteMultipartUpload or, on an error of      *)
(* upload_stdout_send_parts, AbortMultipartUpload, each under retry!.      *)
(***************************************************************************)
\* AfterComplete with the upload aborted when Complete failed
AfterCompleteAbort(ok) == IF ok THEN "done" ELSE "abort"

\* `r?; Ok(..)`: the engine returns after Complete, failed or not
AfterComplete(ok) == "done"

\* Ok(completed_parts) => Complete under retry!, `r?`, Ok(bytes sent)
CompleteAttempt(ok, fault) ==
    /\ pc = "complete"
    /\ store' = IF ok
                THEN [store EXCEPT !.state = "completed",
                                   !.object = Assemble(store, completed_parts)]
                ELSE store
    /\ LET r == RetryStep(attempt, ok) IN
        /\ HistoryAfter("complete", calls, ok, r, fault)
        /\ IF ~r.break
           THEN /\ attempt' = r.attempt
                /\ calls' = calls + 1
                /\ UNCHANGED <<pc, result>>
           ELSE /\ attempt' = 1
                /\ calls' = 0
                /\ pc' = AfterComplete(r.ok)
                /\ result' = IF r.ok
                             THEN [status |-> "ok", bytes |-> data_sent]
                             ELSE [status |-> "err", err |-> "complete"]
    /\ UNCHANGED <<app_vars, child, buf_size, sizing, progress_history,
                   upload_id, part_count, pos,
                   buffer, tx_buffer, buffer_open, rx_completedpart, rx_open,
                   completed_parts, senders, data_sent, original_err,
                   upload_history, nonempty_reads, submitted, received>>

CompleteOk ==
    /\ pc = "complete"
    /\ CompleteAccepted(store, completed_parts)
    /\ CompleteAttempt(TRUE, FALSE)

CompleteFail ==
    /\ pc = "complete"
    /\ \E fault \in BOOLEAN :
        /\ IF fault THEN MayFail(calls)
           ELSE ~CompleteAccepted(store, completed_parts)
        /\ CompleteAttempt(FALSE, fault)

\* AbortReturn with the abort's own error returned when the abort failed
AbortReturnOfAbort(original, aborted) ==
    [status |-> "err", err |-> IF aborted THEN original ELSE "abort"]

\* match r { Ok(_) => Err(original_err), Err(err) => Err(original_err) }
AbortReturn(original, aborted) == [status |-> "err", err |-> original]

\* Err(original_err) => Abort under retry!; whatever the abort's result,
\* Err(original_err) is returned
AbortAttempt(ok, fault) ==
    /\ pc = "abort"
    /\ store' = IF ok THEN [store EXCEPT !.state = "aborted"] ELSE store
    /\ LET r == RetryStep(attempt, ok) IN
        /\ HistoryAfter("abort", calls, ok, r, fault)
        /\ IF ~r.break
           THEN /\ attempt' = r.attempt
                /\ calls' = calls + 1
                /\ UNCHANGED <<pc, result>>
           ELSE /\ attempt' = 1
                /\ calls' = 0
                /\ pc' = "done"
                /\ result' = AbortReturn(original_err, r.ok)
    /\ UNCHANGED <<app_vars, child, buf_size, sizing, progress_history,
                   upload_id, part_count, pos,
                   buffer, tx_buffer, buffer_open, rx_completedpart, rx_open,
                   completed_parts, senders, data_sent, original_err,
                   upload_history, nonempty_reads, submitted, received>>

AbortOk ==
    /\ pc = "abort"
    /\ store.state = "open"
    /\ AbortAttempt(TRUE, FALSE)

AbortFail ==
    /\ pc = "abort"
    /\ \E fault \in BOOLEAN :
        /\ IF fault THEN MayFail(calls) ELSE store.state # "open"
        /\ AbortAttempt(FALSE, fault)

Next ==
    \/ CreateOk
    \/ CreateFail
    \/ ReaderRead
    \/ ReaderReadError
    \/ ReaderDrainOne
    \/ ReaderDrainEnd
    \/ ReaderSend
    \/ ReaderCallback
    \/ JoinSenders
    \/ ChildWait
    \/ FinalDrain
    \/ \E s \in Senders : SenderRecv(s)
    \/ \E s \in Senders : SenderRecvClosed(s)
    \/ \E s \in Senders : UploadPartOk(s)
    \/ \E s \in Senders : UploadPartFail(s)
    \/ \E s \in Senders : SenderSend(s)
    \/ CompleteOk
    \/ CompleteFail
    \/ AbortOk
    \/ AbortFail

Spec == Init /\ [][Next]_vars

\* upload_stdout_internal is called as app calls it, with the callback that
\* sets the progress bar
InitProgress ==
    /\ AppNotCalled
    /\ stream \in {StreamOf(len) : len \in 0..MaxStreamLen}
    /\ buf_size \in 1..MaxBufSize
    /\ exit_status \in {0, 1}
    /\ pc = "create"
    /\ callback = "progress"
    /\ EngineStart
    /\ estimated_size = 0
    /\ size_pc = "internal"
    /\ stream_size = 0
    /\ bytes_read = 0
    /\ queued_parts = <<>>
    /\ highest_part = 0

SpecProgress == InitProgress /\ [][Next]_vars

\* a stream of one part more than the buffer channel and the senders hold
\* together, when cut into parts of one byte
BackpressureLen == BufferChannelCap + NumSenders + 1

\* upload_stdout_internal is called with a stream of up to BackpressureLen
\* bytes and a store that answers every request
InitBackpressure ==
    /\ AppNotCalled
    /\ stream \in {StreamOf(len) : len \in 0..BackpressureLen}
    /\ buf_size \in 1..MaxBufSize
    /\ exit_status \in {0, 1}
    /\ pc = "create"
    /\ callback = "ignore"
    /\ EngineStart
    /\ estimated_size = 0
    /\ size_pc = "internal"
    /\ stream_size = 0
    /\ bytes_read = 0
    /\ queued_parts = <<>>
    /\ highest_part = 0

\* the steps of the engine when no request and no read fails
NextReliable ==
    \/ CreateOk
    \/ ReaderRead
    \/ ReaderDrainOne
    \/ ReaderDrainEnd
    \/ ReaderSend
    \/ ReaderCallback
    \/ JoinSenders
    \/ ChildWait
    \/ FinalDrain
    \/ \E s \in Senders : SenderRecv(s)
    \/ \E s \in Senders : SenderRecvClosed(s)
    \/ \E s \in Senders : UploadPartOk(s)
    \/ \E s \in Senders : SenderSend(s)
    \/ CompleteOk
    \/ AbortOk

SpecBackpressure == InitBackpressure /\ [][NextReliable]_vars

\* the runtime keeps running the tasks that can take a step
FairSpec == Spec /\ WF_vars(Next)

(***************************************************************************)
(* upload_stdout: the part size is chosen from the estimated size.  Sizes  *)
(* are counted in MiB here, the estimated sizes being whole MiB.           *)
(***************************************************************************)
\* estimated sizes go up to (about) MaxEstimateSteps * 10000 MiB
MaxEstimateSteps == 17

\* the estimated sizes tried: those around each multiple of 10000 MiB
EstimatedSizes ==
    {e \in {m * 10000 + d - 2 : m \in 0..MaxEstimateSteps, d \in 0..4} :
        e >= 0}

\* `let safe_estimated_size = estimated_size * 2`
SafeEstimatedSize(est) == est * 2

\* FewEnoughParts with `<=` for `<`
FewEnoughPartsOrEqual(safe, size) == safe \div size <= MAX_S3_PART_COUNT

\* `safe_estimated_size / buf_size < MAX_S3_PART_COUNT`
FewEnoughParts(safe, size) == safe \div size < MAX_S3_PART_COUNT

\* the engine is not running: upload_stdout has not called it yet
EngineNotCalled ==
    /\ stream = <<>>
    /\ exit_status = 0
    /\ pc = "caller"
    /\ callback = "ignore"
    /\ EngineStart

\* upload_stdout is entered: `let mut buf_size = 8 * 1024 * 1024`
InitBufSize ==
    /\ AppNotCalled
    /\ EngineNotCalled
    /\ estimated_size \in EstimatedSizes
    /\ buf_size = InitialBufSize
    /\ size_pc = "size"
    /\ stream_size = 0
    /\ bytes_read = 0
    /\ queued_parts = <<>>
    /\ highest_part = 0

engine_vars ==
    <<stream, exit_status, pc, attempt, upload_id, buffer, tx_buffer,
      buffer_open, rx_completedpart, rx_open, completed_parts, senders,
      data_sent, store, original_err, result, retry_history, upload_history,
      nonempty_reads, submitted, received, issued, progress_history>>

\* `if safe_estimated_size / buf_size < MAX_S3_PART_COUNT { break; }`
SizeLoopBreak ==
    /\ size_pc = "size"
    /\ FewEnoughParts(SafeEstimatedSize(estimated_size), buf_size)
    /\ size_pc' = "read"
    /\ UNCHANGED <<app_vars, engine_vars, buf_size, part_count, pos, estimated_size,
                   stream_size, bytes_read, queued_parts, highest_part>>

\* `buf_size = buf_size * 2`
SizeLoopDouble ==
    /\ size_pc = "size"
    /\ ~FewEnoughParts(SafeEstimatedSize(estimated_size), buf_size)
    /\ buf_size' = buf_size * 2
    /\ UNCHANGED <<app_vars, engine_vars, size_pc, part_count, pos, estimated_size,
                   stream_size, bytes_read, queued_parts, highest_part>>

NextBufSize == SizeLoopBreak \/ SizeLoopDouble

SpecBufSize == InitBufSize /\ [][NextBufSize]_vars

\* the loop is sequential code: it keeps running
FairSpecBufSize == SpecBufSize /\ WF_vars(NextBufSize)

(***************************************************************************)
(* The upload that follows with the chosen buf_size, reduced to the sizes  *)
(* and the numbers of its parts: the reader loop of                        *)
(* upload_stdout_send_parts reads, counts and submits the parts, a sender  *)
(* receives each part and sends it to the store under its number.          *)
(***************************************************************************)
\* a stream of one MiB more than MAX_S3_PART_COUNT parts of the least size
LongStream == MAX_S3_PART_COUNT * InitialBufSize + 1

InitSized ==
    /\ AppNotCalled
    /\ EngineNotCalled
    /\ estimated_size \in {0, 4 * 10000}
    /\ stream_size \in {0, 1, 2 * estimated_size + 1, LongStream}
    /\ buf_size = InitialBufSize
    /\ size_pc = "size"
    /\ bytes_read = 0
    /\ queued_parts = <<>>
    /\ highest_part = 0

\* the top of the reader loop: the part is counted, up to buf_size read
SizedRead ==
    /\ size_pc = "read"
    /\ part_count' = NextPartCount(part_count)
    /\ LET n == Min(buf_size, stream_size - pos) IN
        /\ bytes_read' = n
        /\ pos' = pos + n
        /\ size_pc' = IF ShouldSubmit(n) THEN "send" ELSE "eof"
    /\ UNCHANGED <<app_vars, engine_vars, buf_size, estimated_size, stream_size,
                   queued_parts, highest_part>>

\* tx_buffer.send((part_count, buffer)).await
SizedSend ==
    /\ size_pc = "send"
    /\ Len(queued_parts) < BufferChannelCap
    /\ queued_parts' = Append(queued_parts, part_count)
    /\ size_pc' = "read"
    /\ UNCHANGED <<app_vars, engine_vars, buf_size, part_count, pos, estimated_size,
                   stream_size, bytes_read, highest_part>>

\* a sender receives the part and issues UploadPart with part_number
SizedUpload ==
    /\ queued_parts # <<>>
    /\ highest_part' = Max(highest_part, Head(queued_parts))
    /\ queued_parts' = Tail(queued_parts)
    /\ UNCHANGED <<app_vars, engine_vars, buf_size, part_count, pos, estimated_size,
                   stream_size, bytes_read, size_pc>>

NextSized ==
    \/ SizeLoopBreak
    \/ SizeLoopDouble
    \/ SizedRead
    \/ SizedSend
    \/ SizedUpload

SpecSized == InitSized /\ [][NextSized]_vars

(***************************************************************************)
(* Properties of the upload engine.                                        *)
(***************************************************************************)
Returned == result.status # "none"

Succeeded == result.status = "ok"

\* C1: when the engine returns success, the object the store assembled on
\* CompleteMultipartUpload is byte for byte the stream of the child's stdout.
C1_ObjectEqualsStream ==
    Succeeded => store.state = "completed" /\ store.object = stream

\* a success with as many one-byte parts as the longest stream has bytes
C1_Witness ==
    /\ Succeeded
    /\ Len(stream) = MaxStreamLen
    /\ buf_size = 1
    /\ Len(completed_parts) = MaxStreamLen

\* C2: a child that exits with a failure status makes the engine return an
\* error, with no CompleteMultipartUpload issued, no completed object in the
\* store, and AbortMultipartUpload issued for the upload-id Create returned.
C2_ChildFailureAborts ==
    (Returned /\ upload_id # NoValue /\ exit_status # 0) =>
        /\ result.status = "err"
        /\ "complete" \notin issued
        /\ store.state # "completed"
        /\ "abort" \in issued

\* the engine returned the error of a child whose exit status it waited for
C2_Witness ==
    /\ Returned
    /\ exit_status # 0
    /\ original_err = "exit"
    /\ Len(submitted) > 1

\* C3: when an UploadPart or the CompleteMultipartUpload failed on all its
\* attempts, AbortMultipartUpload was issued before the error is returned.
C3_AbortAfterExhaustedOperation ==
    (Returned /\ exhausted \cap {"uploadpart", "complete"} # {}) =>
        "abort" \in issued

\* C4: the bytes-sent counter is the sum of the sizes of the parts whose
\* UploadPart request the store accepted.
C4_BytesSentIsAcceptedBytes == data_sent = accepted_bytes

\* C5: an operation that fails fewer than 20 times and then succeeds is a
\* success: with a zero child exit and no operation failing 20 times, the
\* upload as a whole returns success.
C5_RetryLaw ==
    (Returned /\ exit_status = 0 /\ exhausted = {}) => Succeeded

\* a success although some operation failed on 19 attempts before its 20th
C5_Witness == Succeeded /\ retried = MaxAttempts - 1

\* C6: an operation under retry! is called at most 20 times, is not called
\* again once a call succeeded, and its failure is returned only after 20
\* failed calls.
C6_RetryBounds ==
    /\ calls < MaxAttempts /\ attempt = calls + 1
    /\ \A s \in Senders :
        /\ senders[s].calls < MaxAttempts
        /\ senders[s].attempt = senders[s].calls + 1
        /\ senders[s].pc = "upload" =>
              senders[s].part_count \notin DOMAIN store.parts
    /\ pc = "create" => store.state = "none"
    /\ pc = "complete" => store.state = "open"
    /\ pc = "abort" => store.state = "open"
    /\ \A n \in fail_returns : n = MaxAttempts

\* an operation has returned its failure
C6_Witness == fail_returns # {} /\ "uploadpart" \in exhausted

\* C7 as stated: the number of UploadPart calls is the number of non-empty
\* buffers the reader produced.
C7_CallsEqualBuffers == Returned => upload_calls = nonempty_reads

\* C7 amended: in a run in which no UploadPart fails 20 times, the UploadPart
\* calls the store accepted are as many as the non-empty buffers the reader
\* produced; every failed attempt is one more call.
C7_AcceptedCallsEqualBuffers ==
    (Returned /\ "uploadpart" \notin exhausted) =>
        upload_calls - upload_failed = nonempty_reads

\* a run of several parts in which an UploadPart was repeated
C7_Witness ==
    /\ Returned
    /\ "uploadpart" \notin exhausted
    /\ upload_failed > 0
    /\ nonempty_reads > 1

\* the part numbers waiting in the buffer channel
Queued == {tx_buffer[i].part_count : i \in 1..Len(tx_buffer)}

\* C8: the reader submits the part numbers 1, 2, ..., N in this order, and
\* each submitted part is either still in the buffer channel or was received
\* by one sender, once.
C8_PartNumbersAndDelivery ==
    /\ \A i \in 1..Len(submitted) : submitted[i] = i
    /\ DOMAIN received \cup Queued = 1..Len(submitted)
    /\ DOMAIN received \cap Queued = {}
    /\ \A p \in DOMAIN received : received[p] = 1
    /\ Len(tx_buffer) = Cardinality(Queued)
    /\ \A s, t \in Senders :
          (s # t /\ senders[s].pc \in {"upload", "send"}
                 /\ senders[t].pc \in {"upload", "send"}) =>
              senders[s].part_count # senders[t].part_count

\* three parts submitted, the two senders holding parts out of order
C8_Witness ==
    /\ Len(submitted) = 3
    /\ senders[1].pc = "upload"
    /\ senders[2].pc = "upload"
    /\ senders[1].part_count > senders[2].part_count

RECURSIVE Pow2(_)
Pow2(k) == IF k = 0 THEN 1 ELSE 2 * Pow2(k - 1)

\* the doublings a part size went through, if it is 8 MiB times a power of 2
Doublings(size) == {k \in 0..20 : size = InitialBufSize * Pow2(k)}

\* C9: the highest part number sent to the store is at most 10000, also
\* when the stream is longer than twice the estimated size.
C9_PartNumberCeiling == highest_part <= MAX_S3_PART_COUNT

\* C10: part-size selection ends, with buf-size = 8 MiB * 2^k for the least
\* k with (estimated-size * 2) / buf-size < 10000; so buf-size >= 8 MiB, and
\* buf-size = 8 MiB for an estimated size of 0.
C10_ChosenBufSize ==
    size_pc = "read" =>
        /\ \E k \in Doublings(buf_size) :
            /\ (estimated_size * 2) \div buf_size < 10000
            /\ \A j \in 0..(k - 1) :
                (estimated_size * 2) \div (InitialBufSize * Pow2(j)) >= 10000
        /\ buf_size >= InitialBufSize
        /\ estimated_size = 0 => buf_size = InitialBufSize

C10_PartSizeSelection == []C10_ChosenBufSize /\ <>(size_pc = "read")

\* a part size chosen after two doublings, at the edge of the third
C10_Witness ==
    /\ size_pc = "read"
    /\ estimated_size = 16 * 10000 - 1
    /\ buf_size = 4 * InitialBufSize

(***************************************************************************)
(* The sync subcommand (src/src/main.rs): planner, remote catalog and      *)
(* sync loop.  Names and keys are sequences of characters.                 *)
(***************************************************************************)
\* everything of upload_stdout, which no step of the sync subcommand's own
\* code changes
upload_vars == <<engine_vars, buf_size, part_count, pos, sizing>>

\* upload_stdout is not running
UploadNotCalled ==
    /\ EngineNotCalled
    /\ buf_size = InitialBufSize
    /\ estimated_size = 0
    /\ size_pc = "caller"
    /\ stream_size = 0
    /\ bytes_read = 0
    /\ queued_parts = <<>>
    /\ highest_part = 0

\* the characters of names and keys, in byte order
Alphabet ==
    <<"/", "1", "2", "3", "4", "5", "@", "A", "T", "_", "a", "c", "d", "e",
      "f", "i", "k", "l", "m", "n", "p", "q", "r", "t", "u", "x">>

CharRank(c) == CHOOSE i \in 1..Len(Alphabet) : Alphabet[i] = c

\* a < b in the byte order of strings, the order the store lists keys in
RECURSIVE KeyLess(_, _)
KeyLess(a, b) ==
    IF b = <<>> THEN FALSE
    ELSE IF a = <<>> THEN TRUE
    ELSE IF Head(a) = Head(b) THEN KeyLess(Tail(a), Tail(b))
    ELSE CharRank(Head(a)) < CharRank(Head(b))

\* the decimal digit of a small number
Digit(i) == <<"1", "2", "3", "4", "5">>[i]

(***************************************************************************)
(* Remote catalog: get_all_files and the store's ListObjectsV2.            *)
(***************************************************************************)
\* most objects in the listed bucket
MaxObjects == 3
\* largest page size of the store
MaxPageSize == 2

Etags == {"e1", "e2"}

\* the key of the i-th object a listed bucket may hold
ObjectKey(i) == <<"k", Digit(i)>>

\* the buckets listed: any of the MaxObjects objects, each under any etag,
\* in key order
RECURSIVE BucketsUpTo(_)
BucketsUpTo(n) ==
    IF n = 0 THEN {<<>>}
    ELSE BucketsUpTo(n - 1) \cup
         {Append(b, [key |-> ObjectKey(n), etag |-> e]) :
              b \in BucketsUpTo(n - 1), e \in Etags}

\* ListObjectsV2 of the store: the page of at most mk entries that follows
\* the request's continuation token or, without one, its start_after key;
\* the response repeats the request's continuation token and, when
\* truncated, carries the token of the next page
ListObjectsV2(bkt, mk, req) ==
    LET after == IF req.continuation_token # <<>>
                 THEN <<Head(req.continuation_token).after>>
                 ELSE req.start_after
        rest == SelectSeq(bkt, LAMBDA o :
                    after = <<>> \/ KeyLess(Head(after), o.key))
        page == SubSeq(rest, 1, Min(mk, Len(rest)))
        truncated == Len(rest) > mk
    IN  [contents |-> page,
         is_truncated |-> truncated,
         continuation_token |-> req.continuation_token,
         next_continuation_token |->
             IF truncated THEN <<[after |-> page[Len(page)].key]>> ELSE <<>>]

\* the request get_all_files builds: `start_after: continuation_token,
\* ..Default::default()`
ListRequestOf(token) == [start_after |-> token, continuation_token |-> <<>>]

\* get_all_files is entered: scan, continuation_token and result are set
ListStart ==
    /\ scan = TRUE
    /\ continuation_token = <<>>
    /\ list_result = {}
    /\ request = NoResponse

\* the variables of app outside get_all_files
planner_vars ==
    <<local_zfs_state, now, s3_backup_actions, configs, config_pos>>
sync_vars ==
    <<actions, actions_performed, dryrun, attempted, appended, uploaded, runs>>

\* `while scan { let request = client.list_objects_v2(...).await?`: the
\* request is answered
ListRequest ==
    /\ app_pc = "list_request"
    /\ request' = ListObjectsV2(bucket, max_keys,
                                ListRequestOf(continuation_token))
    /\ app_pc' = "list_response"
    /\ UNCHANGED <<upload_vars, planner_vars, sync_vars, bucket, max_keys,
                   scan, continuation_token, list_result, remote_files>>

\* `.await?`: the request fails and the error is returned
ListRequestFail ==
    /\ app_pc = "list_request"
    /\ app_pc' = "failed"
    /\ UNCHANGED <<upload_vars, planner_vars, sync_vars, bucket, max_keys,
                   scan, continuation_token, list_result, request,
                   remote_files>>

\* the S3Key entries of a page
EntriesOf(contents) ==
    {[key |-> contents[i].key, etag |-> contents[i].etag] :
         i \in 1..Len(contents)}

\* the rest of the loop body: continuation_token and scan are taken from
\* the response, its entries inserted; `Ok(result)` once scan is false
ListResponse ==
    /\ app_pc = "list_response"
    /\ continuation_token' = request.continuation_token
    /\ scan' = request.is_truncated
    /\ list_result' = list_result \cup EntriesOf(request.contents)
    /\ IF request.is_truncated
       THEN app_pc' = "list_request" /\ UNCHANGED remote_files
       ELSE app_pc' = "listed" /\ remote_files' = list_result'
    /\ UNCHANGED <<upload_vars, planner_vars, sync_vars, bucket, max_keys,
                   request>>

InitList ==
    /\ UploadNotCalled
    /\ local_zfs_state = <<>>
    /\ now = 0
    /\ s3_backup_actions = <<>>
    /\ bucket \in BucketsUpTo(MaxObjects)
    /\ max_keys \in 1..MaxPageSize
    /\ ListStart
    /\ remote_files = {}
    /\ actions = <<>>
    /\ actions_performed = 1
    /\ dryrun = FALSE
    /\ app_pc = "list_request"
    /\ attempted = {}
    /\ appended = <<>>
    /\ uploaded = {}
    /\ runs = 0
    /\ configs = <<>>
    /\ config_pos = 1

NextList == ListRequest \/ ListRequestFail \/ ListResponse

SpecList == InitList /\ [][NextList]_vars

\* get_all_files is sequential code: it keeps running
FairSpecList == SpecList /\ WF_vars(NextList)

\* C11: a truncated response's continuation marker is what the next request
\* carries
C11_MarkerForwarded ==
    (app_pc = "list_request" /\ request.is_truncated)
        => continuation_token = request.next_continuation_token

\* C11: what list(bucket) returns is every (key, etag) of the bucket
C11_ReturnsEveryObject ==
    app_pc = "listed" => remote_files = EntriesOf(bucket)

\* C11: list(bucket) forwards the continuation marker of each truncated
\* response, eventually terminates, and returns every object of the bucket
C11_ListsWholeBucket ==
    /\ []C11_MarkerForwarded
    /\ <>(app_pc \in {"listed", "failed"})
    /\ []C11_ReturnsEveryObject

(***************************************************************************)
(* Backup planner: get_pending_actions and S3Backup                        *)
(* (src/src/compute_backups.rs), on the inventory get_local_zfs_state      *)
(* builds (src/src/zfs_utils.rs).  Time is counted in ticks.               *)
(***************************************************************************)
\* most snapshots `zfs list -t snapshot` reports
MaxSnapshots == 3
\* incremental.expire_in_days of the policy
IncrementalExpireDays == 1
\* full.expire_in_days of the policy
FullExpireDays == 2
\* ticks of the clock in one day
TicksPerDay == 2

\* Duration::days(n)
Days(n) == n * TicksPerDay

\* the policy: pools holding "p", incremental snapshots holding "d", full
\* snapshots holding "m"
config ==
    [pool_regex |-> <<"p">>,
     incremental |-> [snapshot_regex |-> <<"d">>,
                      storage_class |-> "StandardInfrequentAccess",
                      expire_in_days |-> IncrementalExpireDays],
     full |-> [snapshot_regex |-> <<"m">>,
               storage_class |-> "DeepArchive",
               expire_in_days |-> FullExpireDays],
     bucket |-> "zfs-rpool"]

\* Regex::is_match of a regex that is a literal: re occurs somewhere in text
IsMatch(re, text) ==
    \E i \in 1..(Len(text) - Len(re) + 1) :
        SubSeq(text, i, i + Len(re) - 1) = re

\* str::starts_with
StartsWith(text, prefix) ==
    /\ Len(prefix) <= Len(text)
    /\ SubSeq(text, 1, Len(prefix)) = prefix

\* the datasets `zfs list` reports: two that match pool_regex, one of them
\* a prefix of the other, and one that does not match
Pools == {<<"p">>, <<"p", "a">>, <<"q">>}

\* the tags of snapshots: daily, monthly, monthly taken daily, other
Tags == {<<"d">>, <<"m">>, <<"d", "m">>, <<"x">>}

\* the clock when the planner runs
StartClock == Days(FullExpireDays + 2)

\* the ages of snapshots: the last tick within each tier's retention and
\* the first tick beyond it
Ages ==
    {Days(IncrementalExpireDays + 1), Days(IncrementalExpireDays + 1) + 1,
     Days(FullExpireDays + 1), Days(FullExpireDays + 1) + 1}

\* the i-th line of `zfs list -Hpt snapshot -o name,creation`
SnapshotLine(i, pool, tag, age) ==
    [name |-> pool \o <<"@", Digit(i)>> \o tag, creation |-> StartClock - age]

\* `-s creation`: the lines are sorted by creation
Sorted(l) ==
    \A i \in 1..(Len(l) - 1) : l[i].creation <= l[i + 1].creation

\* the lines of `zfs list -Hpt snapshot -o name,creation` for the pools,
\* tags and ages f gives
LinesOf(f) ==
    [i \in DOMAIN f |-> SnapshotLine(i, f[i][1], f[i][2], f[i][3])]

\* the outputs of `zfs list -Hpt snapshot -o name,creation -s creation` of
\* n lines, the snapshots being of `pools`: the choices of pool, tag and
\* age that give sorted lines
SnapshotChoices(n, pools) ==
    {f \in [1..n -> pools \X Tags \X Ages] : Sorted(LinesOf(f))}

\* get_local_zfs_state: each pool gets the snapshots whose names start with
\* the pool's name and "@"
GetLocalZfsState(pools, snapshots) ==
    [pool \in pools |->
        SelectSeq(snapshots, LAMBDA x : StartsWith(x.name, pool \o <<"@">>))]

\* Option::None of a parent name
NoParent == <<>>

\* the comparison with the grace day left out
TooOldNoGrace(snapshot, clock, expire_in_days) ==
    clock - snapshot.creation > Days(expire_in_days)

\* `Local::now().signed_duration_since(snapshot.creation)
\*      > Duration::days(expire_in_days + 1)`
TooOld(snapshot, clock, expire_in_days) ==
    clock - snapshot.creation > Days(expire_in_days + 1)

\* S3Backup::new
NewS3Backup(snapshot, parent, cfg) ==
    [snapshot |-> snapshot,
     parent |-> IF parent = <<>> THEN NoParent ELSE Head(parent).name,
     storage_class |-> IF parent # <<>> THEN cfg.incremental.storage_class
                       ELSE cfg.full.storage_class,
     bucket |-> cfg.bucket]

\* a full backup given the last entry for a parent
FullParentLastEntry(last_entry) == last_entry

\* `S3Backup::new(snapshot, None, config)`: the parent of a full backup
FullParent(last_entry) == <<>>

\* an incremental backup given itself for a parent
IncrementalParentSelf(last_entry, snapshot) == <<snapshot>>

\* `S3Backup::new(snapshot, last_entry, config)`: the parent of an
\* incremental backup
IncrementalParent(last_entry, snapshot) == last_entry

\* last_entry assigned only to the snapshots that are not too old
LastEntryUnlessTooOld(last_entry, snapshot, too_old) ==
    IF too_old THEN last_entry ELSE <<snapshot>>

\* last_entry left as it was, whatever the age
LastEntryKept(last_entry, snapshot, too_old) == last_entry

\* `last_entry = Some(&snapshot)`, past the test of the age
LastEntryAfter(last_entry, snapshot, too_old) == <<snapshot>>

\* the skipped snapshot made the last entry
LastEntryAfterSkipSelf(last_entry, snapshot) == <<snapshot>>

\* `if last_entry.is_none() { warn!(..) }`: last_entry is left as it is
LastEntryAfterSkip(last_entry, snapshot) == last_entry

\* the body of `for snapshot in snapshots`: what is pushed to
\* pending_backups, and last_entry afterwards
PlanSnapshot(snapshot, last_entry, clock, cfg) ==
    IF IsMatch(cfg.incremental.snapshot_regex, snapshot.name)
    THEN IF last_entry = <<>>
         THEN [pushed |-> <<>>,
               last_entry |-> LastEntryAfterSkip(last_entry, snapshot)]
         ELSE LET too_old ==
                      TooOld(snapshot, clock, cfg.incremental.expire_in_days)
              IN  [pushed |->
                       IF too_old THEN <<>>
                       ELSE <<NewS3Backup(snapshot,
                                  IncrementalParent(last_entry, snapshot),
                                  cfg)>>,
                   last_entry |->
                       LastEntryAfter(last_entry, snapshot, too_old)]
    ELSE IF IsMatch(cfg.full.snapshot_regex, snapshot.name)
    THEN LET too_old == TooOld(snapshot, clock, cfg.full.expire_in_days)
         IN  [pushed |->
                  IF too_old THEN <<>>
                  ELSE <<NewS3Backup(snapshot, FullParent(last_entry), cfg)>>,
              last_entry |-> LastEntryAfter(last_entry, snapshot, too_old)]
    ELSE [pushed |-> <<>>, last_entry |-> last_entry]

\* `for snapshot in snapshots`: everything pushed, and the last last_entry
RECURSIVE PlanSnapshots(_, _, _, _)
PlanSnapshots(snapshots, last_entry, clock, cfg) ==
    IF snapshots = <<>> THEN [pushed |-> <<>>, last_entry |-> last_entry]
    ELSE LET first == PlanSnapshot(Head(snapshots), last_entry, clock, cfg)
             rest == PlanSnapshots(Tail(snapshots), first.last_entry, clock,
                                   cfg)
         IN  [pushed |-> first.pushed \o rest.pushed,
              last_entry |-> rest.last_entry]

\* last_entry taken over from the pool planned before
LastEntryCarriedOver(carried) == carried

\* `let mut last_entry: Option<&ZfsSnapshot> = None`, once per pool
LastEntryAtPoolStart(carried) == <<>>

\* `for pool in local_state.pools.keys()`, the keys coming in `order`
RECURSIVE PlanPools(_, _, _, _, _)
PlanPools(order, pools, clock, cfg, carried) ==
    IF order = <<>> THEN <<>>
    ELSE IF ~IsMatch(cfg.pool_regex, Head(order))
    THEN PlanPools(Tail(order), pools, clock, cfg, carried)
    ELSE LET planned == PlanSnapshots(pools[Head(order)],
                                      LastEntryAtPoolStart(carried), clock,
                                      cfg)
         IN  planned.pushed \o
             PlanPools(Tail(order), pools, clock, cfg, planned.last_entry)

\* get_pending_actions, the HashMap giving its keys in `order`
GetPendingActions(order, pools, clock, cfg) ==
    PlanPools(order, pools, clock, cfg, <<>>)

\* the orders a HashMap may give its keys in
KeyOrders(keys) ==
    {o \in [1..Cardinality(keys) -> keys] :
        \A i, j \in 1..Cardinality(keys) : i # j => o[i] # o[j]}

FullPrefix == <<"f", "u", "l", "l", "/">>

IncrementalPrefix ==
    <<"i", "n", "c", "r", "e", "m", "e", "n", "t", "a", "l", "/">>

\* the replacement left out
ReplacedCharKept(c) == <<c>>

\* `replace("@", "_AT_")`, for one character
ReplacedChar(c) == IF c = "@" THEN <<"_", "A", "T", "_">> ELSE <<c>>

\* `self.snapshot.name.replace("@", "_AT_")`
RECURSIVE ReplaceAtSign(_)
ReplaceAtSign(name) ==
    IF name = <<>> THEN <<>>
    ELSE ReplacedChar(Head(name)) \o ReplaceAtSign(Tail(name))

\* S3Backup::key
Key(a) ==
    (IF a.parent # NoParent THEN IncrementalPrefix ELSE FullPrefix)
        \o ReplaceAtSign(a.snapshot.name)

\* the variables of app outside get_pending_actions
catalog_vars ==
    <<bucket, max_keys, scan, continuation_token, list_result, request,
      remote_files>>

\* `let s3_backup_actions = get_pending_actions(&local_zfs_state, &config)`,
\* config being the entry that `for config in config.configs` has reached
Plan ==
    /\ app_pc = "plan"
    /\ \E order \in KeyOrders(DOMAIN local_zfs_state) :
           s3_backup_actions' =
               GetPendingActions(order, local_zfs_state, now,
                                 configs[config_pos])
    /\ app_pc' = "list_request"
    /\ UNCHANGED <<upload_vars, catalog_vars, sync_vars, local_zfs_state,
                   now, configs, config_pos>>

\* the sync loop has not been reached
SyncLoopStart ==
    /\ actions = <<>>
    /\ actions_performed = 1
    /\ attempted = {}
    /\ appended = <<>>
    /\ uploaded = {}

InitPlan ==
    /\ UploadNotCalled
    /\ \E n \in 0..MaxSnapshots : \E f \in SnapshotChoices(n, Pools) :
           local_zfs_state = GetLocalZfsState(Pools, LinesOf(f))
    /\ now = StartClock
    /\ s3_backup_actions = <<>>
    /\ bucket = <<>>
    /\ max_keys = 1
    /\ ListStart
    /\ remote_files = {}
    /\ SyncLoopStart
    /\ dryrun = FALSE
    /\ app_pc = "plan"
    /\ runs = 1
    /\ configs = <<config>>
    /\ config_pos = 1

SpecPlan == InitPlan /\ [][Plan]_vars

(***************************************************************************)
(* Properties of the planner.                                              *)
(***************************************************************************)
\* get_pending_actions has returned
Planned == app_pc # "plan"

\* the pools of the inventory that match pool-pattern
MatchedPools ==
    {p \in DOMAIN local_zfs_state : IsMatch(config.pool_regex, p)}

IncrementalMatch(s) == IsMatch(config.incremental.snapshot_regex, s.name)

FullMatch(s) == IsMatch(config.full.snapshot_regex, s.name)

\* now minus creation is at most expire-days + 1 days
WithinRetention(s, tier) ==
    now - s.creation <= (tier.expire_in_days + 1) * TicksPerDay

\* the planned actions of snapshot s
ActionsOf(s) ==
    {s3_backup_actions[k] : k \in {h \in 1..Len(s3_backup_actions) :
                                       s3_backup_actions[h].snapshot = s}}

\* the number of planned actions of snapshot s
CountOf(s) ==
    Cardinality({h \in 1..Len(s3_backup_actions) :
                     s3_backup_actions[h].snapshot = s})

\* a full action of snapshot s: no parent, key under full/
IsFullActionOf(a, s) ==
    /\ a.snapshot = s
    /\ a.parent = NoParent
    /\ StartsWith(Key(a), FullPrefix)

\* C13 as stated: every snapshot of a matching pool that matches the full
\* pattern and is within retention gets a full action, whatever else its
\* name matches
C13_FullActionWhateverElseMatches ==
    Planned =>
        \A p \in MatchedPools : \A i \in 1..Len(local_zfs_state[p]) :
            LET s == local_zfs_state[p][i] IN
            (FullMatch(s) /\ WithinRetention(s, config.full))
                => \E a \in ActionsOf(s) : IsFullActionOf(a, s)

\* C13 amended: every snapshot of a matching pool that matches the full
\* pattern and not the incremental pattern, and is within retention, gets
\* a full action (no parent, key under full/)
C13_FullActionUnlessIncremental ==
    Planned =>
        \A p \in MatchedPools : \A i \in 1..Len(local_zfs_state[p]) :
            LET s == local_zfs_state[p][i] IN
            (FullMatch(s) /\ ~IncrementalMatch(s)
                 /\ WithinRetention(s, config.full))
                => \E a \in ActionsOf(s) : IsFullActionOf(a, s)

\* a full snapshot within retention is planned after another full one of
\* its pool, next to a snapshot matching both patterns
C13_Witness ==
    /\ Planned
    /\ \E p \in MatchedPools : \E i, j, k \in 1..Len(local_zfs_state[p]) :
           LET snaps == local_zfs_state[p] IN
           /\ i < j
           /\ FullMatch(snaps[i]) /\ ~IncrementalMatch(snaps[i])
           /\ FullMatch(snaps[j]) /\ ~IncrementalMatch(snaps[j])
           /\ WithinRetention(snaps[j], config.full)
           /\ FullMatch(snaps[k]) /\ IncrementalMatch(snaps[k])

\* snapshot i of pool p is uploadable: it matches a pattern and is not an
\* incremental one left without a parent, that is, a snapshot matching the
\* full pattern alone is at or before it
Uploadable(p, i) ==
    LET snaps == local_zfs_state[p] IN
    /\ IncrementalMatch(snaps[i]) \/ FullMatch(snaps[i])
    /\ \E h \in 1..i : FullMatch(snaps[h]) /\ ~IncrementalMatch(snaps[h])

\* the uploadable snapshots of pool p before snapshot j
UploadableBefore(p, j) == {i \in 1..(j - 1) : Uploadable(p, i)}

\* the greatest number of a non-empty set of numbers
Greatest(S) == CHOOSE m \in S : \A n \in S : n <= m

\* C14: an incremental-matching snapshot within retention that follows an
\* uploadable snapshot of its pool gets exactly one action, an incremental
\* one whose parent is the uploadable snapshot right before it
C14_IncrementalParentedOnPreceding ==
    Planned =>
        \A p \in MatchedPools : \A j \in 1..Len(local_zfs_state[p]) :
            LET snaps == local_zfs_state[p] IN
            (IncrementalMatch(snaps[j])
                 /\ WithinRetention(snaps[j], config.incremental)
                 /\ UploadableBefore(p, j) # {})
                => /\ CountOf(snaps[j]) = 1
                   /\ \A a \in ActionsOf(snaps[j]) :
                        /\ a.parent =
                               snaps[Greatest(UploadableBefore(p, j))].name
                        /\ StartsWith(Key(a), IncrementalPrefix)

\* an incremental snapshot within retention follows an uploadable snapshot
\* and, in between, a snapshot that matches neither pattern
C14_Witness ==
    /\ Planned
    /\ \E p \in MatchedPools : \E i, x, j \in 1..Len(local_zfs_state[p]) :
           LET snaps == local_zfs_state[p] IN
           /\ i < x /\ x < j
           /\ Uploadable(p, i)
           /\ ~IncrementalMatch(snaps[x]) /\ ~FullMatch(snaps[x])
           /\ IncrementalMatch(snaps[j])
           /\ WithinRetention(snaps[j], config.incremental)
           /\ CountOf(snaps[j]) = 1

\* C17 as stated: a snapshot matching a tier's pattern yields an action iff
\* now minus its creation is at most that tier's expire-days + 1 days
C17_ActionIffWithinRetentionOfMatchedTier ==
    Planned =>
        \A p \in MatchedPools : \A j \in 1..Len(local_zfs_state[p]) :
            LET s == local_zfs_state[p][j] IN
            /\ IncrementalMatch(s)
                   => (CountOf(s) >= 1
                           <=> WithinRetention(s, config.incremental))
            /\ FullMatch(s)
                   => (CountOf(s) >= 1 <=> WithinRetention(s, config.full))

\* C17 amended: a snapshot handled by a tier (the incremental tier when it
\* matches the incremental pattern and has a parent, the full tier when it
\* matches the full pattern alone) yields an action iff now minus its
\* creation is at most that tier's expire-days + 1 days
C17_ActionIffWithinGraceDay ==
    Planned =>
        \A p \in MatchedPools : \A j \in 1..Len(local_zfs_state[p]) :
            LET s == local_zfs_state[p][j] IN
            /\ (IncrementalMatch(s) /\ UploadableBefore(p, j) # {})
                   => (CountOf(s) >= 1
                           <=> WithinRetention(s, config.incremental))
            /\ (FullMatch(s) /\ ~IncrementalMatch(s))
                   => (CountOf(s) >= 1 <=> WithinRetention(s, config.full))

\* the age of snapshot s
AgeOf(s) == now - s.creation

\* a full snapshot a tick older than expire-days + 1 days is skipped, and
\* a full and an incremental snapshot exactly that old are planned
C17_Witness ==
    /\ Planned
    /\ \E p \in MatchedPools : \E f, g, i \in 1..Len(local_zfs_state[p]) :
           LET old == local_zfs_state[p][f]
               full == local_zfs_state[p][g]
               incr == local_zfs_state[p][i]
           IN  /\ FullMatch(old) /\ ~IncrementalMatch(old)
               /\ AgeOf(old) = (config.full.expire_in_days + 1) * TicksPerDay + 1
               /\ CountOf(old) = 0
               /\ FullMatch(full) /\ ~IncrementalMatch(full)
               /\ AgeOf(full) = (config.full.expire_in_days + 1) * TicksPerDay
               /\ CountOf(full) = 1
               /\ IncrementalMatch(incr)
               /\ AgeOf(incr) =
                      (config.incremental.expire_in_days + 1) * TicksPerDay
               /\ CountOf(incr) = 1

\* a name with every "@" replaced by "_AT_", built from its end
RECURSIVE WithAtReplaced(_)
WithAtReplaced(name) ==
    IF name = <<>> THEN <<>>
    ELSE LET front == SubSeq(name, 1, Len(name) - 1)
             last == name[Len(name)]
         IN  IF last = "@" THEN WithAtReplaced(front) \o <<"_", "A", "T", "_">>
             ELSE Append(WithAtReplaced(front), last)

\* what follows the first n characters of a key
After(key, n) == SubSeq(key, n + 1, Len(key))

\* C18: the key of a planned action begins with "full/" iff the action has
\* no parent and with "incremental/" otherwise, and goes on with the
\* snapshot name, every @ replaced by _AT_
C18_KeyOfAction ==
    Planned =>
        \A k \in 1..Len(s3_backup_actions) :
            LET a == s3_backup_actions[k]
                key == Key(a)
            IN  /\ StartsWith(key, FullPrefix) <=> a.parent = NoParent
                /\ a.parent # NoParent => StartsWith(key, IncrementalPrefix)
                /\ \A c \in 1..Len(key) : key[c] # "@"
                /\ After(key, IF a.parent = NoParent THEN Len(FullPrefix)
                              ELSE Len(IncrementalPrefix))
                       = WithAtReplaced(a.snapshot.name)

\* a full and an incremental action are planned
C18_Witness ==
    /\ Planned
    /\ \E k, l \in 1..Len(s3_backup_actions) :
           /\ s3_backup_actions[k].parent = NoParent
           /\ s3_backup_actions[l].parent # NoParent
           /\ Key(s3_backup_actions[l]) =
                  IncrementalPrefix \o <<"p", "a", "_", "A", "T", "_", "3", "d">>

\* C19: the parent of a planned action is a snapshot of the same pool as
\* the action's snapshot and comes strictly earlier in that pool's sequence
C19_ParentEarlierInSamePool ==
    Planned =>
        \A k \in 1..Len(s3_backup_actions) :
            LET a == s3_backup_actions[k] IN
            a.parent # NoParent =>
                \E p \in DOMAIN local_zfs_state :
                \E i, j \in 1..Len(local_zfs_state[p]) :
                    /\ i < j
                    /\ local_zfs_state[p][j] = a.snapshot
                    /\ local_zfs_state[p][i].name = a.parent
                    /\ StartsWith(a.parent, p \o <<"@">>)
                    /\ StartsWith(a.snapshot.name, p \o <<"@">>)

\* an incremental action is planned while another matching pool holds an
\* uploadable snapshot too
C19_Witness ==
    /\ Planned
    /\ \E k \in 1..Len(s3_backup_actions) :
           s3_backup_actions[k].parent # NoParent
    /\ \A p \in MatchedPools : \E i \in 1..Len(local_zfs_state[p]) :
           Uploadable(p, i)

\* the planned actions of the snapshots of pool p, in plan order
ActionsOfPool(p) ==
    SelectSeq(s3_backup_actions,
              LAMBDA a : StartsWith(a.snapshot.name, p \o <<"@">>))

\* C20: the actions planned for a pool, in their order, are those planned
\* from that pool alone, whatever the pool order and the other pools
C20_PoolPlannedOnItsOwn ==
    Planned =>
        \A p \in DOMAIN local_zfs_state :
            ActionsOfPool(p) =
                GetPendingActions(<<p>>,
                                  [q \in {p} |-> local_zfs_state[p]],
                                  now, config)

\* one matching pool ends on an uploadable snapshot and the other begins
\* with an incremental one within retention, which stays without action
C20_Witness ==
    /\ Planned
    /\ \E p, q \in MatchedPools :
           /\ p # q
           /\ Len(local_zfs_state[p]) > 0
           /\ Uploadable(p, Len(local_zfs_state[p]))
           /\ Len(local_zfs_state[q]) > 0
           /\ IncrementalMatch(local_zfs_state[q][1])
           /\ WithinRetention(local_zfs_state[q][1], config.incremental)
           /\ ActionsOfPool(q) = <<>>
           /\ ActionsOfPool(p) # <<>>

(***************************************************************************)
(* The sync subcommand as a whole (src/src/main.rs): plan, list, filter,   *)
(* then the loop over the actions; and the next run of the program.        *)
(***************************************************************************)
\* most snapshots when the program is first run
MaxSyncSnapshots == 2
\* most runs of the program
MaxRuns == 2
\* most ticks between two runs
MaxElapsed == 1

\* the keys looked up with an etag in mind
ExistingKeysOfEtag(existing) ==
    {x.key : x \in {y \in existing : y.etag = "e1"}}

\* `HashSet::from_iter(existing.into_iter().map(|x| x.key.clone()))`
ExistingKeys(existing) == {x.key : x \in existing}

\* filter_existing_backups
FilterExistingBackups(plan, existing) ==
    SelectSeq(plan, LAMBDA x : Key(x) \notin ExistingKeys(existing))

\* the upload under the snapshot's name without the prefix
UploadKeyOfName(a) == ReplaceAtSign(a.snapshot.name)

\* `&backup_action.key()`, the key upload_stdout is given
UploadKey(a) == Key(a)

\* the store after an object is completed at key: it takes its place in the
\* listing order, instead of the object of that key if there was one
PutObject(bkt, key, etag) ==
    SelectSeq(bkt, LAMBDA o : KeyLess(o.key, key))
        \o <<[key |-> key, etag |-> etag]>>
        \o SelectSeq(bkt, LAMBDA o : KeyLess(key, o.key))

\* `for backup_action in s3_backup_actions.filter_existing_backups(
\* &remote_files) { actions.push(backup_action); }`, then the next entry of
\* config.configs, get_all_files starting anew for it, or, after the last
\* entry, the head of the loop over the actions
Filter ==
    /\ app_pc = "listed"
    /\ actions' =
           actions \o FilterExistingBackups(s3_backup_actions, remote_files)
    /\ actions_performed' = 1
    /\ IF config_pos < Len(configs)
       THEN /\ config_pos' = config_pos + 1
            /\ app_pc' = "plan"
            /\ scan' = TRUE
            /\ continuation_token' = <<>>
            /\ list_result' = {}
            /\ request' = NoResponse
            /\ UNCHANGED <<bucket, max_keys, remote_files>>
       ELSE /\ app_pc' = IF actions' = <<>> THEN "done" ELSE "estimate"
            /\ UNCHANGED <<config_pos, catalog_vars>>
    /\ UNCHANGED <<upload_vars, local_zfs_state, now, s3_backup_actions,
                   configs, dryrun, attempted, appended, uploaded, runs>>

\* the end of the loop body: `actions_performed += 1`, then the next action
\* or the end of the loop
LoopEnd ==
    /\ actions_performed' = actions_performed + 1
    /\ app_pc' = IF actions_performed + 1 > Len(actions) THEN "done"
                 ELSE "estimate"

\* `let estimated_size = backup_action.get_estimated_size()?`, and with
\* dryrun the rest of the loop body
EstimateSize(ok) ==
    /\ app_pc = "estimate"
    /\ attempted' = attempted \cup {actions_performed}
    /\ IF ~ok THEN app_pc' = "failed" /\ UNCHANGED actions_performed
       ELSE IF dryrun THEN LoopEnd
       ELSE app_pc' = "spawn" /\ UNCHANGED actions_performed
    /\ UNCHANGED <<upload_vars, planner_vars, catalog_vars, actions, dryrun,
                   appended, uploaded, runs>>

\* `backup_action.backup(false)?`
SpawnBackup(ok) ==
    /\ app_pc = "spawn"
    /\ app_pc' = IF ok THEN "upload" ELSE "failed"
    /\ UNCHANGED <<upload_vars, planner_vars, catalog_vars, actions,
                   actions_performed, dryrun, attempted, appended, uploaded,
                   runs>>

\* `upload_stdout(...).await?` returns Ok: the object is at the key
UploadDone ==
    /\ app_pc = "upload"
    /\ \E etag \in Etags :
           bucket' = PutObject(bucket, UploadKey(actions[actions_performed]),
                               etag)
    /\ uploaded' = uploaded \cup {UploadKey(actions[actions_performed])}
    /\ LoopEnd
    /\ UNCHANGED <<upload_vars, planner_vars, max_keys, scan,
                   continuation_token, list_result, request, remote_files,
                   actions, dryrun, attempted, appended, runs>>

\* `upload_stdout(...).await?` returns Err: no object is completed
UploadFailed ==
    /\ app_pc = "upload"
    /\ app_pc' = "failed"
    /\ UNCHANGED <<upload_vars, planner_vars, catalog_vars, actions,
                   actions_performed, dryrun, attempted, appended, uploaded,
                   runs>>

\* the number of snapshots of the inventory
RECURSIVE SnapshotCount(_, _)
SnapshotCount(pools, S) ==
    IF S = {} THEN 0
    ELSE LET p == CHOOSE q \in S : TRUE IN
         Len(pools[p]) + SnapshotCount(pools, S \ {p})

\* the program is run again after a run that ended well: time has passed,
\* and at most one snapshot was taken since
NextRun ==
    /\ app_pc = "done"
    /\ runs < MaxRuns
    /\ \E elapsed \in 0..MaxElapsed :
        /\ now' = now + elapsed
        /\ \/ /\ appended' = <<>>
              /\ UNCHANGED local_zfs_state
           \/ \E pool \in DOMAIN local_zfs_state, tag \in Tags,
                 creation \in now..(now + elapsed) :
                  LET n == SnapshotCount(local_zfs_state,
                                         DOMAIN local_zfs_state)
                      snapshot == [name |-> pool \o <<"@", Digit(n + 1)>>
                                                 \o tag,
                                   creation |-> creation]
                  IN  /\ appended' = <<snapshot>>
                      /\ local_zfs_state' =
                             [local_zfs_state EXCEPT
                                  ![pool] = Append(@, snapshot)]
    /\ runs' = runs + 1
    /\ app_pc' = "plan"
    /\ config_pos' = 1
    /\ s3_backup_actions' = <<>>
    /\ scan' = TRUE
    /\ continuation_token' = <<>>
    /\ list_result' = {}
    /\ request' = NoResponse
    /\ remote_files' = {}
    /\ actions' = <<>>
    /\ actions_performed' = 1
    /\ attempted' = {}
    /\ UNCHANGED <<upload_vars, bucket, max_keys, dryrun, uploaded, configs>>

\* a page size no bucket of these runs exceeds
OnePage == MaxSyncSnapshots + MaxRuns

\* the pools of the synced inventory
SyncPools == {<<"p">>}

\* the buckets holding, under any etag, any of the objects that the planned
\* actions `plan` would upload
RECURSIVE BucketsOf(_)
BucketsOf(plan) ==
    IF plan = <<>> THEN {<<>>}
    ELSE LET rest == BucketsOf(Tail(plan)) IN
         rest \cup {PutObject(b, Key(Head(plan)), e) :
                        b \in rest, e \in Etags}

InitSync ==
    /\ UploadNotCalled
    /\ \E n \in 0..MaxSyncSnapshots : \E f \in SnapshotChoices(n, SyncPools) :
           local_zfs_state = GetLocalZfsState(SyncPools, LinesOf(f))
    /\ now = StartClock
    /\ s3_backup_actions = <<>>
    /\ bucket \in BucketsOf(GetPendingActions(<<<<"p">>>>, local_zfs_state,
                                              now, config))
    /\ max_keys \in {1, OnePage}
    /\ ListStart
    /\ remote_files = {}
    /\ SyncLoopStart
    /\ dryrun \in BOOLEAN
    /\ app_pc = "plan"
    /\ runs = 1
    /\ configs = <<config>>
    /\ config_pos = 1

NextSync ==
    \/ Plan
    \/ ListRequest
    \/ ListRequestFail
    \/ ListResponse
    \/ Filter
    \/ EstimateSize(TRUE)
    \/ EstimateSize(FALSE)
    \/ SpawnBackup(TRUE)
    \/ SpawnBackup(FALSE)
    \/ UploadDone
    \/ UploadFailed
    \/ NextRun

SpecSync == InitSync /\ [][NextSync]_vars

(***************************************************************************)
(* Properties of the sync subcommand.                                      *)
(***************************************************************************)
\* app has returned
AppReturned == app_pc \in {"done", "failed"}

\* the filtered actions of the current run are known
Filtered == app_pc \in {"estimate", "spawn", "upload", "done"}

\* C12: the failure of one action does not halt the sync loop: when app
\* returns, every action of the list was attempted
C12_EveryActionAttempted ==
    AppReturned => attempted = 1..Len(actions)

\* the remote catalog has an entry of this key
InRemote(key) == \E x \in remote_files : x.key = key

\* C15: the filtered actions are, in plan order, the planned actions whose
\* key is not a key of the remote catalog, whatever the etags
C15_FilterIsKeyDifference ==
    Filtered =>
        /\ actions = SelectSeq(s3_backup_actions,
                               LAMBDA a : ~InRemote(Key(a)))
        /\ \A k \in 1..Len(actions) : ~InRemote(Key(actions[k]))
        /\ \A k \in 1..Len(s3_backup_actions) :
               ~InRemote(Key(s3_backup_actions[k]))
                   => \E h \in 1..Len(actions) :
                          actions[h] = s3_backup_actions[k]

\* of two planned actions the first is kept, and the second dropped for a
\* remote entry of its key whose etag is "e2"
C15_Witness ==
    /\ Filtered
    /\ Len(s3_backup_actions) = 2
    /\ actions = <<s3_backup_actions[1]>>
    /\ [key |-> Key(s3_backup_actions[2]), etag |-> "e2"] \in remote_files

\* the pool the snapshot s is the last snapshot of
PoolEndingWith(s) ==
    CHOOSE p \in DOMAIN local_zfs_state :
        /\ local_zfs_state[p] # <<>>
        /\ local_zfs_state[p][Len(local_zfs_state[p])] = s

\* the run before this one uploaded every action of its filtered plan
UploadedBefore == runs >= 2 /\ ~dryrun

\* C16: after a run that uploaded every action of its filtered plan, the
\* filtered plan of the same inventory is empty, and that of the inventory
\* with one more incremental snapshot (of a matching pool, following an
\* uploadable snapshot, within retention) is that snapshot's action,
\* parented on the last uploadable snapshot before it
C16_ReconciliationIdempotent ==
    (UploadedBefore /\ Filtered) =>
        IF appended = <<>> THEN actions = <<>>
        ELSE LET s == Head(appended)
                 p == PoolEndingWith(s)
                 j == Len(local_zfs_state[p])
             IN  (/\ IncrementalMatch(s)
                  /\ p \in MatchedPools
                  /\ UploadableBefore(p, j) # {}
                  /\ WithinRetention(s, config.incremental))
                     => actions =
                            <<[snapshot |-> s,
                               parent |-> local_zfs_state[p][
                                   Greatest(UploadableBefore(p, j))].name,
                               storage_class |->
                                   config.incremental.storage_class,
                               bucket |-> config.bucket]>>

\* the first run uploaded two actions; the second run, one more incremental
\* snapshot later, plans three actions and is left with the new one
C16_Witness ==
    /\ UploadedBefore
    /\ Filtered
    /\ Cardinality(uploaded) = 2
    /\ appended # <<>>
    /\ Len(s3_backup_actions) = 3
    /\ Len(actions) = 1
    /\ actions[1].snapshot = Head(appended)
    /\ actions[1].parent # NoParent

(***************************************************************************)
(* Properties of the upload engine: errors, the collector, progress and    *)
(* the order of the pipeline's steps.                                      *)
(***************************************************************************)
\* the errors upload_stdout_send_parts returns
UploadErrors == {"uploadpart", "exit"}

\* C21: when the upload failed, the error returned to the caller is the
\* original upload error, whether the AbortMultipartUpload that followed
\* succeeded or failed on all its attempts.
C21_OriginalErrorReturned ==
    (Returned /\ "abort" \in issued) =>
        /\ original_err \in UploadErrors
        /\ result = [status |-> "err", err |-> original_err]

\* the child's failure is returned after the abort failed on 20 attempts
C21_Witness ==
    /\ Returned
    /\ "abort" \in exhausted
    /\ store.state = "open"
    /\ result.err = "exit"

\* C22: on every successful run the byte count the engine returns is the
\* number of bytes read from the child's stdout, also when UploadPart
\* attempts failed and were retried.
C22_ReturnedBytesAreBytesRead ==
    Succeeded => result.bytes = pos /\ pos = Len(stream)

\* CompleteMultipartUpload has been or is about to be issued with
\* completed_parts
CompleteIssued == pc = "complete" \/ "complete" \in issued

\* C23: whenever CompleteMultipartUpload is issued, its part list has one
\* entry for each part the reader submitted, in ascending order of the part
\* numbers 1..N, each with the etag the store returned for that part,
\* whatever order the senders finished in and whichever drain took a result.
C23_CompleteListsEveryPart ==
    CompleteIssued =>
        /\ Len(completed_parts) = Len(submitted)
        /\ \A i \in 1..Len(completed_parts) :
            /\ completed_parts[i].part_number = i
            /\ i \in DOMAIN store.parts
            /\ completed_parts[i].e_tag = store.parts[i].e_tag

\* Complete is issued for three parts of which the second finished first and
\* the last was taken by the final drain, the others by the reader loop
C23_Witness ==
    /\ pc = "complete"
    /\ Len(collected) = 3
    /\ collected[1] = [part_number |-> 2, drain |-> "early"]
    /\ collected[2] = [part_number |-> 1, drain |-> "early"]
    /\ collected[3] = [part_number |-> 3, drain |-> "final"]

\* the callback has been invoked for every part submitted, or for all but
\* the part whose submission has just returned
CalledOncePerPart ==
    callbacks = Len(submitted) - (IF pc = "callback" THEN 1 ELSE 0)

\* a step that invokes the callback passes it the bytes-sent of that
\* moment, which is no less than the value before; no other step moves
\* the progress bar
CallbackStep ==
    /\ callbacks' # callbacks =>
          /\ callbacks' = callbacks + 1
          /\ pc = "callback"
          /\ pb_position' = data_sent
          /\ pb_position' >= pb_position
    /\ callbacks' = callbacks => pb_position' = pb_position

\* C24: the reader invokes the progress callback once for each part it
\* submits, after the submission, with bytes-sent as it is at that moment;
\* the values passed during one upload never decrease.
C24_CallbackPerPartNonDecreasing ==
    []CalledOncePerPart /\ [][CallbackStep]_vars

\* the callback of the last of three parts got a value between the earlier
\* one and the final count, after an UploadPart attempt had failed
C24_Witness ==
    /\ callbacks = 3
    /\ Len(submitted) = 3
    /\ upload_failed > 0
    /\ pb_position > 1
    /\ pb_position < data_sent

\* C25: on every fatal error AbortMultipartUpload is issued only after the
\* buffer channel was closed and every sender task was joined, so that once
\* the abort is issued no UploadPart request is in flight and no part waits
\* for a sender to start one, also when the error is a sender's report taken
\* by the reader loop's drain.
C25_NoUploadPartOnceAborted ==
    "abort" \in issued =>
        /\ ~buffer_open
        /\ tx_buffer = <<>>
        /\ \A s \in Senders : senders[s].pc # "upload"

\* C26: CompleteMultipartUpload is issued only after the reader has seen end
\* of file and closed the buffer channel, every sender task has ended with
\* all its UploadPart requests answered, and child.wait() has returned a
\* zero exit status.
C26_CompleteAfterEofJoinAndWait ==
    CompleteIssued =>
        /\ pos = Len(stream)
        /\ part_count = Len(submitted) + 1
        /\ ~buffer_open
        /\ tx_buffer = <<>>
        /\ \A s \in Senders : senders[s].pc = "done"
        /\ wait_result = <<0>>

\* Complete is about to be issued for three parts, one of them retried
C26_Witness ==
    /\ pc = "complete"
    /\ "complete" \notin issued
    /\ Len(submitted) = 3
    /\ upload_failed > 0

\* a sender holds the failure it is about to report, or the failure waits
\* in the completion channel
FailureReported ==
    \/ \E s \in Senders :
          senders[s].pc = "send" /\ ~senders[s].completed_part.ok
    \/ \E i \in 1..Len(rx_completedpart) : ~rx_completedpart[i].ok

\* once an UploadPart failed on all its attempts: the failure is on its way
\* through the completion channel while the collector is there to receive
\* it, CompleteMultipartUpload is not issued, and a return is an error
NoSuccessAfterExhaustedPart ==
    "uploadpart" \in exhausted =>
        /\ ~CompleteIssued
        /\ store.state # "completed"
        /\ rx_open => FailureReported
        /\ Returned => result.status = "err"

\* C27: when the UploadPart of a part failed on all its attempts, the sender
\* reports the failure through the completion channel and the upload as a
\* whole returns an error without CompleteMultipartUpload ever being issued,
\* whichever drain receives the report and whatever became of the other
\* parts (a task that panicked on reading the child's stdout returns
\* nothing).
C27_ExhaustedPartFailsUpload ==
    /\ []NoSuccessAfterExhaustedPart
    /\ ("uploadpart" \in exhausted) ~> (Returned \/ pc = "panicked")

\* the failure of part 1 was returned although parts 2 and 3 were accepted
C27_Witness ==
    /\ "uploadpart" \in exhausted
    /\ Returned
    /\ original_err = "uploadpart"
    /\ DOMAIN store.parts = {2, 3}
    /\ wait_result = <<0>>

\* the senders that hold a part: received, its result not yet handed to the
\* completion channel
Holding == {s \in Senders : senders[s].pc \in {"upload", "send"}}

\* upload_stdout_send_parts has neither returned an error nor panicked
Collecting == original_err = NoValue /\ pc # "panicked"

\* the results handed to the completion channel so far, while Collecting
Acknowledged == Len(collected) + Len(rx_completedpart)

\* C28: the buffer channel holds at most 2 queued parts and each of the N
\* senders at most one, so the parts submitted and not yet acknowledged
\* through the completion channel are at most 2 + N; the reader waits on its
\* submission while the channel is full.
C28_BoundedPartsInFlight ==
    /\ Len(tx_buffer) <= 2
    /\ Cardinality(Holding) <= NumSenders
    /\ Collecting =>
          /\ Len(submitted) - Acknowledged =
                Len(tx_buffer) + Cardinality(Holding)
          /\ Len(submitted) - Acknowledged <= 2 + NumSenders
    /\ (pc = "send" /\ Len(tx_buffer) = 2) => ~ENABLED ReaderSend

\* the reader waits with one more part: the channel is full and every
\* sender has a request in flight
C28_Witness ==
    /\ pc = "send"
    /\ Len(tx_buffer) = 2
    /\ \A s \in Senders : senders[s].pc = "upload"
    /\ Len(submitted) - Acknowledged = 2 + NumSenders
    /\ Len(buffer) > 0

\* ceil(len / size)
CeilDiv(len, size) == (len + size - 1) \div size

\* the size of the i-th part of a stream of len bytes cut every size bytes
ChunkSize(len, size, i) == Min(size, len - (i - 1) * size)

\* the reader loop has ended on an empty read
LoopBroke == pc \in {"join", "wait"} \/ wait_result # <<>>

\* C29: of a stream of L > 0 bytes the reader submits ceil(L / buf-size)
\* parts: every part but the last has buf-size bytes, the last the remaining
\* 1..buf-size bytes, and no empty part is submitted, also when L is a
\* multiple of buf-size.
C29_PartsCutEveryBufSize ==
    Len(stream) > 0 =>
        /\ \A i \in 1..Len(submitted_sizes) :
            /\ submitted_sizes[i] = ChunkSize(Len(stream), buf_size, i)
            /\ submitted_sizes[i] >= 1
            /\ i < CeilDiv(Len(stream), buf_size) =>
                  submitted_sizes[i] = buf_size
        /\ Len(submitted_sizes) <= CeilDiv(Len(stream), buf_size)
        /\ LoopBroke =>
              Len(submitted_sizes) = CeilDiv(Len(stream), buf_size)

\* a stream of exactly one buf-size: one full part, then the empty read that
\* ends the loop
C29_Witness ==
    /\ LoopBroke
    /\ Len(stream) = buf_size
    /\ buf_size = MaxBufSize
    /\ submitted_sizes = <<MaxBufSize>>
    /\ part_count = 2

\* C30: when reading the child's stdout fails with an I/O error after
\* CreateMultipartUpload succeeded, the engine returns an error to its
\* caller and issues AbortMultipartUpload for the upload-id.
C30_ReadErrorReturnsErrAndAborts ==
    pc = "panicked" =>
        /\ upload_id # NoValue
        /\ result.status = "err"
        /\ "abort" \in issued

\* C31: when CreateMultipartUpload failed on all its attempts, the engine
\* returns that error and has issued no UploadPart, Complete or Abort,
\* started no sender and read no byte of the child's stdout.
C31_CreateFailureReturnsAtOnce ==
    "create" \in exhausted =>
        /\ result = [status |-> "err", err |-> "create"]
        /\ pc = "done"
        /\ issued = {"create"}
        /\ upload_calls = 0
        /\ store.state = "none"
        /\ \A s \in Senders : senders[s].pc = "idle"
        /\ pos = 0
        /\ part_count = 0
        /\ wait_result = <<>>

\* Create failed 20 times for a child with a stream to read
C31_Witness ==
    /\ "create" \in exhausted
    /\ Returned
    /\ Len(stream) = MaxStreamLen
    /\ exit_status = 0

\* child.wait() was called at most once, and then after a read of the
\* child's stdout had come back empty at the end of the stream
WaitedOnceAfterEof ==
    /\ Len(wait_result) <= 1
    /\ wait_result # <<>> =>
          /\ pos = Len(stream)
          /\ nonempty_reads = part_count - 1
          /\ part_count = Len(submitted) + 1

\* a step that reads the child's stdout or calls child.wait() is a step of
\* the reader, at its read or after its loop, and no step of a sender
ChildUsedByReaderOnly ==
    (pos' # pos \/ nonempty_reads' # nonempty_reads
                \/ wait_result' # wait_result) =>
        /\ pc \in {"read", "wait"}
        /\ pc' # pc
        /\ senders' = senders

\* C32: during one upload child.wait() is called at most once, by the
\* reader task only, and only after the reader has read the child's stdout
\* to end of file; the senders neither read stdout nor call wait.
C32_WaitOnceByReaderAfterEof ==
    []WaitedOnceAfterEof /\ [][ChildUsedByReaderOnly]_vars

\* wait was called after three parts and the empty read, senders joined
C32_Witness ==
    /\ Len(wait_result) = 1
    /\ Len(submitted) = 3
    /\ part_count = 4
    /\ pc = "final"

\* the bytes of the i-th part of the stream
ChunkOf(i) == ReadPart(stream, (i - 1) * buf_size, buf_size)

\* C33: every attempt of the UploadPart of a part sends the same part
\* number, payload, content length and MD5 digest as the first attempt: the
\* digest is that of the payload, computed once, and the payload is the
\* part as it was read from the child.
C33_RetriesResendSameRequest ==
    /\ \A q1, q2 \in requests :
          q1.part_number = q2.part_number => q1 = q2
    /\ \A q \in requests :
          /\ q.body = ChunkOf(q.part_number)
          /\ q.content_length = Len(q.body)
          /\ q.content_md5 = Md5(q.body)

\* the request of the short second part went out 20 times before it was
\* accepted
C33_Witness ==
    /\ retried = MaxAttempts - 1
    /\ 2 \in DOMAIN store.parts
    /\ buf_size = 2
    /\ store.parts[2].body = <<PatternByte(3)>>
    /\ upload_failed = MaxAttempts - 1
    /\ Cardinality(requests) = 2

(***************************************************************************)
(* Properties of the planner: what becomes last_entry.                     *)
(***************************************************************************)
\* the planned actions that name snapshot s as their parent
ChildrenOf(s) ==
    {h \in 1..Len(s3_backup_actions) : s3_backup_actions[h].parent = s.name}

\* C34: a snapshot matching the incremental pattern that is skipped for
\* want of a parent leaves last-uploadable empty and is the parent of no
\* action; a pool whose snapshots all match the incremental pattern yields
\* no action at all.
C34_SkippedIncrementalIsNoParent ==
    Planned =>
        \A p \in MatchedPools :
            LET snaps == local_zfs_state[p] IN
            /\ \A j \in 1..Len(snaps) :
                  (IncrementalMatch(snaps[j]) /\ UploadableBefore(p, j) = {})
                      => /\ PlanSnapshot(snaps[j], <<>>, now, config)
                             = [pushed |-> <<>>, last_entry |-> <<>>]
                         /\ CountOf(snaps[j]) = 0
                         /\ ChildrenOf(snaps[j]) = {}
            /\ (\A j \in 1..Len(snaps) : IncrementalMatch(snaps[j]))
                  => ActionsOfPool(p) = <<>>

\* a pool of three snapshots within retention that match the incremental
\* pattern only, planned without an action
C34_Witness ==
    /\ Planned
    /\ LET snaps == local_zfs_state[<<"p">>] IN
        /\ Len(snaps) = 3
        /\ \A j \in 1..3 :
              /\ IncrementalMatch(snaps[j]) /\ ~FullMatch(snaps[j])
              /\ WithinRetention(snaps[j], config.incremental)
    /\ s3_backup_actions = <<>>

\* last_entry once the first i snapshots of pool p have gone through the
\* loop
LastEntryUpTo(p, i) ==
    PlanSnapshots(SubSeq(local_zfs_state[p], 1, i), <<>>, now, config)
        .last_entry

\* C35 as stated: a snapshot that matches the full pattern, or matches the
\* incremental pattern while last-uploadable is not empty, becomes
\* last-uploadable, too old or not
C35_FullOrParentedBecomesLastEntry ==
    Planned =>
        \A p \in MatchedPools : \A i \in 1..Len(local_zfs_state[p]) :
            LET s == local_zfs_state[p][i] IN
            (\/ FullMatch(s)
             \/ IncrementalMatch(s) /\ LastEntryUpTo(p, i - 1) # <<>>)
                => LastEntryUpTo(p, i) = <<s>>

\* C35 amended: a snapshot that matches the full pattern and not the
\* incremental one, or matches the incremental pattern after an uploadable
\* snapshot of its pool, becomes last-uploadable, too old or not, and the
\* next incremental action of the pool names it as parent whether or not
\* an action was planned for it
C35_TooOldStillBecomesLastEntry ==
    Planned =>
        \A p \in MatchedPools : \A i \in 1..Len(local_zfs_state[p]) :
            LET snaps == local_zfs_state[p] IN
            (\/ FullMatch(snaps[i]) /\ ~IncrementalMatch(snaps[i])
             \/ IncrementalMatch(snaps[i]) /\ UploadableBefore(p, i) # {})
                => /\ LastEntryUpTo(p, i) = <<snaps[i]>>
                   /\ \A j \in (i + 1)..Len(snaps) :
                        (/\ IncrementalMatch(snaps[j])
                         /\ WithinRetention(snaps[j], config.incremental)
                         /\ \A x \in (i + 1)..(j - 1) :
                                ~IncrementalMatch(snaps[x])
                                    /\ ~FullMatch(snaps[x]))
                            => \E a \in ActionsOf(snaps[j]) :
                                   a.parent = snaps[i].name

\* an incremental action names as parent an incremental snapshot that was
\* too old for an action of its own
C35_Witness ==
    /\ Planned
    /\ \E p \in MatchedPools : \E i, j \in 1..Len(local_zfs_state[p]) :
           LET snaps == local_zfs_state[p] IN
           /\ i < j
           /\ IncrementalMatch(snaps[i])
           /\ UploadableBefore(p, i) # {}
           /\ ~WithinRetention(snaps[i], config.incremental)
           /\ CountOf(snaps[i]) = 0
           /\ IncrementalMatch(snaps[j])
           /\ \E a \in ActionsOf(snaps[j]) : a.parent = snaps[i].name

(***************************************************************************)
(* Properties of the upload engine: termination and the order of the       *)
(* requests.                                                               *)
(***************************************************************************)
\* the reader waits to send a part on the full buffer channel
BlockedOnFullChannel == pc = "send" /\ ChannelFull(tx_buffer)

\* C36: with a child whose stdout reaches EOF (no read fails) and a store
\* that answers every request, every invocation of the engine eventually
\* returns, whatever the interleaving of reader, senders and collector:
\* the reader does not wait forever on the full buffer channel, the join of
\* the senders completes, and the final drain ends.
C36_EngineEventuallyReturns ==
    /\ <>(Returned \/ pc = "panicked")
    /\ BlockedOnFullChannel ~> ~BlockedOnFullChannel
    /\ (pc = "join") ~> (pc = "wait")
    /\ (pc = "final") ~> (pc \in {"complete", "abort"})

\* the engine returned success after the reader had waited on the full
\* buffer channel, the senders were joined and the final drain ended
C36_Witness ==
    /\ Succeeded
    /\ Len(stream) = MaxStreamLen
    /\ buf_size = 1
    /\ \A s \in Senders : senders[s].pc = "done"
    /\ \E i \in 1..Len(collected) : collected[i].drain = "final"

\* CompleteMultipartUpload and AbortMultipartUpload are not both issued,
\* and none of them is without the upload-id
EitherCompleteOrAbort ==
    /\ ~({"complete", "abort"} \subseteq issued)
    /\ (issued \cap {"complete", "abort"} # {}) => upload_id # NoValue

\* a first request of Complete or Abort comes with the upload-id that
\* CreateMultipartUpload returned before
EndsAfterCreateReturned ==
    (\E op \in {"complete", "abort"} : op \in issued' /\ op \notin issued)
        => /\ upload_id # NoValue
           /\ upload_id' = upload_id
           /\ "create" \in issued
           /\ store.state = "open"

\* C37: for one upload-id, CompleteMultipartUpload and AbortMultipartUpload
\* are never both issued, and neither is issued before
\* CreateMultipartUpload has returned that upload-id.
C37_CompleteOrAbortAfterCreate ==
    []EitherCompleteOrAbort /\ [][EndsAfterCreateReturned]_vars

\* CompleteMultipartUpload failed on all its attempts and the engine
\* returned its error with no AbortMultipartUpload
C37_Witness ==
    /\ "complete" \in exhausted
    /\ result = [status |-> "err", err |-> "complete"]
    /\ issued = {"create", "uploadpart", "complete"}
    /\ upload_id # NoValue

\* the child writes nothing to its stdout and exits with status zero
EmptyStreamZeroExit == stream = <<>> /\ exit_status = 0

\* nothing is submitted, requested of the store as a part or reported to
\* the callback, no abort is under way, and Complete gets the empty list
NothingButComplete ==
    /\ submitted = <<>>
    /\ tx_buffer = <<>>
    /\ upload_calls = 0
    /\ requests = {}
    /\ "uploadpart" \notin issued
    /\ callbacks = 0
    /\ pc # "abort"
    /\ "abort" \notin issued
    /\ CompleteIssued => completed_parts = <<>>

\* C39: when the child's stdout is empty and the child exits zero, the
\* reader submits no part, no UploadPart is issued, the progress callback is
\* never invoked, and once CreateMultipartUpload has returned the upload-id
\* the engine issues CompleteMultipartUpload with an empty part list, and no
\* AbortMultipartUpload (a read that fails instead of reaching EOF apart).
C39_EmptyStreamCompletesWithNoParts ==
    /\ [](EmptyStreamZeroExit => NothingButComplete)
    /\ (EmptyStreamZeroExit /\ upload_id # NoValue)
           ~> ("complete" \in issued \/ pc = "panicked")

\* the engine returned after CompleteMultipartUpload was issued with the
\* empty list for the empty stream of a child that exited zero
C39_Witness ==
    /\ EmptyStreamZeroExit
    /\ Returned
    /\ part_count = 1
    /\ wait_result = <<0>>
    /\ issued = {"create", "complete"}
    /\ completed_parts = <<>>
    /\ callbacks = 0

(***************************************************************************)
(* The sync subcommand with several policy entries in config.yaml          *)
(* (src/src/main.rs, `for config in config.configs`): each entry is        *)
(* planned, listed and filtered in turn, then the actions are run.         *)
(***************************************************************************)
\* most policy entries of config.yaml
MaxConfigs == 2

\* policy entries of one bucket, as the default config.yaml suggests ("You
\* can backup multiple pools to one bucket"): for the pools holding "p",
\* those holding "pa" and those holding "q"
ConfigChoices ==
    {config,
     [config EXCEPT !.pool_regex = <<"p", "a">>],
     [config EXCEPT !.pool_regex = <<"q">>]}

\* config.yaml: up to MaxConfigs entries, no entry written twice
ConfigLists ==
    {c \in UNION {[1..n -> ConfigChoices] : n \in 1..MaxConfigs} :
        \A i, j \in 1..Len(c) : i # j => c[i] # c[j]}

InitConfigs ==
    /\ UploadNotCalled
    /\ \E n \in 0..MaxSyncSnapshots : \E f \in SnapshotChoices(n, Pools) :
           local_zfs_state = GetLocalZfsState(Pools, LinesOf(f))
    /\ now = StartClock
    /\ s3_backup_actions = <<>>
    /\ configs \in ConfigLists
    /\ config_pos = 1
    /\ bucket \in BucketsOf(GetPendingActions(<<<<"p">>>>, local_zfs_state,
                                              now, config))
    /\ max_keys = OnePage
    /\ ListStart
    /\ remote_files = {}
    /\ SyncLoopStart
    /\ dryrun \in BOOLEAN
    /\ app_pc = "plan"
    /\ runs = MaxRuns

NextConfigs ==
    \/ Plan
    \/ ListRequest
    \/ ListRequestFail
    \/ ListResponse
    \/ Filter
    \/ EstimateSize(TRUE)
    \/ EstimateSize(FALSE)
    \/ SpawnBackup(TRUE)
    \/ SpawnBackup(FALSE)
    \/ UploadDone
    \/ UploadFailed

SpecConfigs == InitConfigs /\ [][NextConfigs]_vars

(***************************************************************************)
(* Properties of the sync subcommand: the execution list.                  *)
(***************************************************************************)
\* the (bucket, key) an action uploads to
Target(a) == <<a.bucket, UploadKey(a)>>

\* C38: within one sync run no two actions of the execution list have the
\* same (bucket, key), also when several policy entries share a bucket and
\* their pool-patterns match the same pool.
C38_NoTwoActionsOfOneTarget ==
    \A i, j \in 1..Len(actions) :
        i # j => Target(actions[i]) # Target(actions[j])
====
